---------------------------- MODULE Spec2Model ----------------------------
(***************************************************************************)
(* DentalSystem (src/app.py, src/models.py): the appointment booking       *)
(* routes, the patient cancellation, the admin status update, the          *)
(* registry of services, dentists and users, the configuration page and    *)
(* the available-slots API.                                                *)
(*                                                                         *)
(* A request is served by a worker in steps: one step for each point at    *)
(* which the view reads the database or commits, so that the statements of *)
(* two requests interleave as they do between two server workers on a      *)
(* READ COMMITTED database.  What a request has read stays in its locals   *)
(* (the SQLAlchemy session of the request) until it answers.               *)
(*                                                                         *)
(* Time is counted in minutes from 2026-11-02 00:00 (a Monday).  A         *)
(* time-of-day string is a sequence of one-character strings, so that      *)
(* strptime, strftime, int and parse_hora are computed character by        *)
(* character.                                                              *)
(***************************************************************************)
EXTENDS Integers, Sequences, FiniteSets, TLC

(***************************************************************************)
(* Bounds of the model.                                                    *)
(***************************************************************************)
MaxAgendamentos == 2

MinutosPorDia == 24 * 60

Workers == {1, 2}

\* the ids the forms of the model name: the users (1 is the admin of
\* init_database, 2 and 3 the first users added), the dentists (1 is the
\* dentist of init_database, 2 the first dentist added), the services (1..5
\* are those of init_database, 6 the first service added)
UsuarioIds == 1..3
DentistaIds == {1, 2}
ServicoIds == 1..6

StatusAtivos == {"pendente", "confirmado"}
StatusFinais == {"cancelado", "concluido"}
\* mutant of StatusAceitos: 'pendente' is accepted too
StatusAceitosComPendente == {"pendente", "confirmado", "cancelado", "concluido"}
StatusAceitos == {"confirmado", "cancelado", "concluido"}
StatusForm == {"pendente", "confirmado", "cancelado", "concluido", "remarcado"}

(***************************************************************************)
(* Character strings.                                                      *)
(***************************************************************************)
\* A string is a sequence of characters, each a one-character string; a
\* character that cannot be written in a string of this language is named by
\* its code point, as in "U+000B".
Digitos == <<"0", "1", "2", "3", "4", "5", "6", "7", "8", "9">>

\* the decimal digits outside ASCII (Unicode category Nd), one row for each
\* script, in the order of their values 0..9: int() and \d take them too
DigitosUnicode ==
    <<<<"U+0660", "U+0661", "U+0662", "U+0663", "U+0664", "U+0665", "U+0666", "U+0667", "U+0668", "U+0669">>,
      <<"U+06F0", "U+06F1", "U+06F2", "U+06F3", "U+06F4", "U+06F5", "U+06F6", "U+06F7", "U+06F8", "U+06F9">>,
      <<"U+07C0", "U+07C1", "U+07C2", "U+07C3", "U+07C4", "U+07C5", "U+07C6", "U+07C7", "U+07C8", "U+07C9">>,
      <<"U+0966", "U+0967", "U+0968", "U+0969", "U+096A", "U+096B", "U+096C", "U+096D", "U+096E", "U+096F">>,
      <<"U+09E6", "U+09E7", "U+09E8", "U+09E9", "U+09EA", "U+09EB", "U+09EC", "U+09ED", "U+09EE", "U+09EF">>,
      <<"U+0A66", "U+0A67", "U+0A68", "U+0A69", "U+0A6A", "U+0A6B", "U+0A6C", "U+0A6D", "U+0A6E", "U+0A6F">>,
      <<"U+0AE6", "U+0AE7", "U+0AE8", "U+0AE9", "U+0AEA", "U+0AEB", "U+0AEC", "U+0AED", "U+0AEE", "U+0AEF">>,
      <<"U+0B66", "U+0B67", "U+0B68", "U+0B69", "U+0B6A", "U+0B6B", "U+0B6C", "U+0B6D", "U+0B6E", "U+0B6F">>,
      <<"U+0BE6", "U+0BE7", "U+0BE8", "U+0BE9", "U+0BEA", "U+0BEB", "U+0BEC", "U+0BED", "U+0BEE", "U+0BEF">>,
      <<"U+0C66", "U+0C67", "U+0C68", "U+0C69", "U+0C6A", "U+0C6B", "U+0C6C", "U+0C6D", "U+0C6E", "U+0C6F">>,
      <<"U+0CE6", "U+0CE7", "U+0CE8", "U+0CE9", "U+0CEA", "U+0CEB", "U+0CEC", "U+0CED", "U+0CEE", "U+0CEF">>,
      <<"U+0D66", "U+0D67", "U+0D68", "U+0D69", "U+0D6A", "U+0D6B", "U+0D6C", "U+0D6D", "U+0D6E", "U+0D6F">>,
      <<"U+0DE6", "U+0DE7", "U+0DE8", "U+0DE9", "U+0DEA", "U+0DEB", "U+0DEC", "U+0DED", "U+0DEE", "U+0DEF">>,
      <<"U+0E50", "U+0E51", "U+0E52", "U+0E53", "U+0E54", "U+0E55", "U+0E56", "U+0E57", "U+0E58", "U+0E59">>,
      <<"U+0ED0", "U+0ED1", "U+0ED2", "U+0ED3", "U+0ED4", "U+0ED5", "U+0ED6", "U+0ED7", "U+0ED8", "U+0ED9">>,
      <<"U+0F20", "U+0F21", "U+0F22", "U+0F23", "U+0F24", "U+0F25", "U+0F26", "U+0F27", "U+0F28", "U+0F29">>,
      <<"U+1040", "U+1041", "U+1042", "U+1043", "U+1044", "U+1045", "U+1046", "U+1047", "U+1048", "U+1049">>,
      <<"U+1090", "U+1091", "U+1092", "U+1093", "U+1094", "U+1095", "U+1096", "U+1097", "U+1098", "U+1099">>,
      <<"U+17E0", "U+17E1", "U+17E2", "U+17E3", "U+17E4", "U+17E5", "U+17E6", "U+17E7", "U+17E8", "U+17E9">>,
      <<"U+1810", "U+1811", "U+1812", "U+1813", "U+1814", "U+1815", "U+1816", "U+1817", "U+1818", "U+1819">>,
      <<"U+1946", "U+1947", "U+1948", "U+1949", "U+194A", "U+194B", "U+194C", "U+194D", "U+194E", "U+194F">>,
      <<"U+19D0", "U+19D1", "U+19D2", "U+19D3", "U+19D4", "U+19D5", "U+19D6", "U+19D7", "U+19D8", "U+19D9">>,
      <<"U+1A80", "U+1A81", "U+1A82", "U+1A83", "U+1A84", "U+1A85", "U+1A86", "U+1A87", "U+1A88", "U+1A89">>,
      <<"U+1A90", "U+1A91", "U+1A92", "U+1A93", "U+1A94", "U+1A95", "U+1A96", "U+1A97", "U+1A98", "U+1A99">>,
      <<"U+1B50", "U+1B51", "U+1B52", "U+1B53", "U+1B54", "U+1B55", "U+1B56", "U+1B57", "U+1B58", "U+1B59">>,
      <<"U+1BB0", "U+1BB1", "U+1BB2", "U+1BB3", "U+1BB4", "U+1BB5", "U+1BB6", "U+1BB7", "U+1BB8", "U+1BB9">>,
      <<"U+1C40", "U+1C41", "U+1C42", "U+1C43", "U+1C44", "U+1C45", "U+1C46", "U+1C47", "U+1C48", "U+1C49">>,
      <<"U+1C50", "U+1C51", "U+1C52", "U+1C53", "U+1C54", "U+1C55", "U+1C56", "U+1C57", "U+1C58", "U+1C59">>,
      <<"U+A620", "U+A621", "U+A622", "U+A623", "U+A624", "U+A625", "U+A626", "U+A627", "U+A628", "U+A629">>,
      <<"U+A8D0", "U+A8D1", "U+A8D2", "U+A8D3", "U+A8D4", "U+A8D5", "U+A8D6", "U+A8D7", "U+A8D8", "U+A8D9">>,
      <<"U+A900", "U+A901", "U+A902", "U+A903", "U+A904", "U+A905", "U+A906", "U+A907", "U+A908", "U+A909">>,
      <<"U+A9D0", "U+A9D1", "U+A9D2", "U+A9D3", "U+A9D4", "U+A9D5", "U+A9D6", "U+A9D7", "U+A9D8", "U+A9D9">>,
      <<"U+A9F0", "U+A9F1", "U+A9F2", "U+A9F3", "U+A9F4", "U+A9F5", "U+A9F6", "U+A9F7", "U+A9F8", "U+A9F9">>,
      <<"U+AA50", "U+AA51", "U+AA52", "U+AA53", "U+AA54", "U+AA55", "U+AA56", "U+AA57", "U+AA58", "U+AA59">>,
      <<"U+ABF0", "U+ABF1", "U+ABF2", "U+ABF3", "U+ABF4", "U+ABF5", "U+ABF6", "U+ABF7", "U+ABF8", "U+ABF9">>,
      <<"U+FF10", "U+FF11", "U+FF12", "U+FF13", "U+FF14", "U+FF15", "U+FF16", "U+FF17", "U+FF18", "U+FF19">>,
      <<"U+104A0", "U+104A1", "U+104A2", "U+104A3", "U+104A4", "U+104A5", "U+104A6", "U+104A7", "U+104A8", "U+104A9">>,
      <<"U+10D30", "U+10D31", "U+10D32", "U+10D33", "U+10D34", "U+10D35", "U+10D36", "U+10D37", "U+10D38", "U+10D39">>,
      <<"U+11066", "U+11067", "U+11068", "U+11069", "U+1106A", "U+1106B", "U+1106C", "U+1106D", "U+1106E", "U+1106F">>,
      <<"U+110F0", "U+110F1", "U+110F2", "U+110F3", "U+110F4", "U+110F5", "U+110F6", "U+110F7", "U+110F8", "U+110F9">>,
      <<"U+11136", "U+11137", "U+11138", "U+11139", "U+1113A", "U+1113B", "U+1113C", "U+1113D", "U+1113E", "U+1113F">>,
      <<"U+111D0", "U+111D1", "U+111D2", "U+111D3", "U+111D4", "U+111D5", "U+111D6", "U+111D7", "U+111D8", "U+111D9">>,
      <<"U+112F0", "U+112F1", "U+112F2", "U+112F3", "U+112F4", "U+112F5", "U+112F6", "U+112F7", "U+112F8", "U+112F9">>,
      <<"U+11450", "U+11451", "U+11452", "U+11453", "U+11454", "U+11455", "U+11456", "U+11457", "U+11458", "U+11459">>,
      <<"U+114D0", "U+114D1", "U+114D2", "U+114D3", "U+114D4", "U+114D5", "U+114D6", "U+114D7", "U+114D8", "U+114D9">>,
      <<"U+11650", "U+11651", "U+11652", "U+11653", "U+11654", "U+11655", "U+11656", "U+11657", "U+11658", "U+11659">>,
      <<"U+116C0", "U+116C1", "U+116C2", "U+116C3", "U+116C4", "U+116C5", "U+116C6", "U+116C7", "U+116C8", "U+116C9">>,
      <<"U+11730", "U+11731", "U+11732", "U+11733", "U+11734", "U+11735", "U+11736", "U+11737", "U+11738", "U+11739">>,
      <<"U+118E0", "U+118E1", "U+118E2", "U+118E3", "U+118E4", "U+118E5", "U+118E6", "U+118E7", "U+118E8", "U+118E9">>,
      <<"U+11950", "U+11951", "U+11952", "U+11953", "U+11954", "U+11955", "U+11956", "U+11957", "U+11958", "U+11959">>,
      <<"U+11C50", "U+11C51", "U+11C52", "U+11C53", "U+11C54", "U+11C55", "U+11C56", "U+11C57", "U+11C58", "U+11C59">>,
      <<"U+11D50", "U+11D51", "U+11D52", "U+11D53", "U+11D54", "U+11D55", "U+11D56", "U+11D57", "U+11D58", "U+11D59">>,
      <<"U+11DA0", "U+11DA1", "U+11DA2", "U+11DA3", "U+11DA4", "U+11DA5", "U+11DA6", "U+11DA7", "U+11DA8", "U+11DA9">>,
      <<"U+16A60", "U+16A61", "U+16A62", "U+16A63", "U+16A64", "U+16A65", "U+16A66", "U+16A67", "U+16A68", "U+16A69">>,
      <<"U+16AC0", "U+16AC1", "U+16AC2", "U+16AC3", "U+16AC4", "U+16AC5", "U+16AC6", "U+16AC7", "U+16AC8", "U+16AC9">>,
      <<"U+16B50", "U+16B51", "U+16B52", "U+16B53", "U+16B54", "U+16B55", "U+16B56", "U+16B57", "U+16B58", "U+16B59">>,
      <<"U+1D7CE", "U+1D7CF", "U+1D7D0", "U+1D7D1", "U+1D7D2", "U+1D7D3", "U+1D7D4", "U+1D7D5", "U+1D7D6", "U+1D7D7">>,
      <<"U+1D7D8", "U+1D7D9", "U+1D7DA", "U+1D7DB", "U+1D7DC", "U+1D7DD", "U+1D7DE", "U+1D7DF", "U+1D7E0", "U+1D7E1">>,
      <<"U+1D7E2", "U+1D7E3", "U+1D7E4", "U+1D7E5", "U+1D7E6", "U+1D7E7", "U+1D7E8", "U+1D7E9", "U+1D7EA", "U+1D7EB">>,
      <<"U+1D7EC", "U+1D7ED", "U+1D7EE", "U+1D7EF", "U+1D7F0", "U+1D7F1", "U+1D7F2", "U+1D7F3", "U+1D7F4", "U+1D7F5">>,
      <<"U+1D7F6", "U+1D7F7", "U+1D7F8", "U+1D7F9", "U+1D7FA", "U+1D7FB", "U+1D7FC", "U+1D7FD", "U+1D7FE", "U+1D7FF">>,
      <<"U+1E140", "U+1E141", "U+1E142", "U+1E143", "U+1E144", "U+1E145", "U+1E146", "U+1E147", "U+1E148", "U+1E149">>,
      <<"U+1E2F0", "U+1E2F1", "U+1E2F2", "U+1E2F3", "U+1E2F4", "U+1E2F5", "U+1E2F6", "U+1E2F7", "U+1E2F8", "U+1E2F9">>,
      <<"U+1E950", "U+1E951", "U+1E952", "U+1E953", "U+1E954", "U+1E955", "U+1E956", "U+1E957", "U+1E958", "U+1E959">>,
      <<"U+1FBF0", "U+1FBF1", "U+1FBF2", "U+1FBF3", "U+1FBF4", "U+1FBF5", "U+1FBF6", "U+1FBF7", "U+1FBF8", "U+1FBF9">>>>

\* a decimal digit of int() and of \d
EhDigito(c) ==
    \/ \E i \in 1..10 : Digitos[i] = c
    \/ \E r \in 1..Len(DigitosUnicode), i \in 1..10 : DigitosUnicode[r][i] = c

ValorDigito(c) ==
    IF \E i \in 1..10 : Digitos[i] = c
    THEN (CHOOSE i \in 1..10 : Digitos[i] = c) - 1
    ELSE (CHOOSE i \in 1..10 :
             \E r \in 1..Len(DigitosUnicode) : DigitosUnicode[r][i] = c) - 1

RECURSIVE ValorDecimal(_)
ValorDecimal(s) ==
    IF Len(s) = 0 THEN 0
    ELSE 10 * ValorDecimal(SubSeq(s, 1, Len(s) - 1)) + ValorDigito(s[Len(s)])

\* positions of ':' in s
DoisPontos(s) == {i \in 1..Len(s) : s[i] = ":"}

\* str.split(':') when the string holds exactly one ':'
ParteAntes(s) == SubSeq(s, 1, (CHOOSE i \in DoisPontos(s) : TRUE) - 1)
ParteDepois(s) == SubSeq(s, (CHOOSE i \in DoisPontos(s) : TRUE) + 1, Len(s))

\* the whitespace int() strips: tab, line feed, vertical tab, form feed,
\* carriage return, the blank, and the blanks outside ASCII
Brancos ==
    {" ", "\t", "\n", "U+000B", "\f", "\r", "U+0085", "U+00A0", "U+1680",
     "U+2000", "U+2001", "U+2002", "U+2003", "U+2004", "U+2005", "U+2006",
     "U+2007", "U+2008", "U+2009", "U+200A", "U+2028", "U+2029", "U+202F",
     "U+205F", "U+3000"}

\* the whitespace \s of a regular expression takes: the four separators
\* FS, GS, RS, US as well
BrancosRegex == Brancos \cup {"U+001C", "U+001D", "U+001E", "U+001F"}

\* the string without its leading characters of the set brancos
RECURSIVE SemBrancosInicio(_, _)
SemBrancosInicio(s, brancos) ==
    IF Len(s) > 0 /\ s[1] \in brancos
    THEN SemBrancosInicio(Tail(s), brancos)
    ELSE s

\* the string without its trailing characters of the set brancos
RECURSIVE SemBrancosFim(_, _)
SemBrancosFim(s, brancos) ==
    IF Len(s) > 0 /\ s[Len(s)] \in brancos
    THEN SemBrancosFim(SubSeq(s, 1, Len(s) - 1), brancos)
    ELSE s

\* int(x) strips the whitespace around its argument
Strip(s) == SemBrancosFim(SemBrancosInicio(s, Brancos), Brancos)

\* int(x) takes one sign
SemSinal(s) == IF Len(s) > 0 /\ s[1] \in {"-", "+"} THEN Tail(s) ELSE s

\* int(x) takes digits with single underscores between them
DigitosAgrupados(s) ==
    /\ Len(s) > 0
    /\ \A i \in 1..Len(s) : EhDigito(s[i]) \/ s[i] = "_"
    /\ EhDigito(s[1]) /\ EhDigito(s[Len(s)])
    /\ \A i \in 1..(Len(s) - 1) : ~(s[i] = "_" /\ s[i + 1] = "_")

\* int(x) of Python does not raise ValueError: whitespace around, an optional
\* sign, then digits, single underscores allowed between digits, and no more
\* than 4300 digits (sys.int_info.default_max_str_digits)
IntValido(p) ==
    /\ DigitosAgrupados(SemSinal(Strip(p)))
    /\ Len(SelectSeq(p, EhDigito)) <= 4300

\* minus the number the digits d write, for a number up to 2^31
RECURSIVE MenosValor(_)
MenosValor(d) ==
    IF Len(d) = 0 THEN 0
    ELSE 10 * MenosValor(SubSeq(d, 1, Len(d) - 1)) - ValorDigito(d[Len(d)])

\* the number the digits d write is above 2^31
RECURSIVE AcimaDe31Bits(_)
AcimaDe31Bits(d) ==
    /\ Len(d) > 0
    /\ \/ AcimaDe31Bits(SubSeq(d, 1, Len(d) - 1))
       \/ MenosValor(SubSeq(d, 1, Len(d) - 1))
          < ((-2147483647 - 1) + ValorDigito(d[Len(d)]) + 9) \div 10

\* int(x) lies in -2^31 .. 2^31 - 1: the range of an Integer column, and of
\* the integers of this model; digitos are the digits of x, without the sign
\* and the underscores
IntCabe(p) ==
    LET digitos == SelectSeq(SemSinal(Strip(p)), EhDigito)
    IN  /\ ~AcimaDe31Bits(digitos)
        /\ (Strip(p)[1] = "-" \/ MenosValor(digitos) > -2147483647 - 1)

\* int(x) of Python, when it does not raise and IntCabe(x)
IntDe(p) ==
    LET digitos == SelectSeq(SemSinal(Strip(p)), EhDigito)
    IN  IF Strip(p)[1] = "-" THEN MenosValor(digitos) ELSE 0 - MenosValor(digitos)

\* request.form.get(campo, padrao, type=int): int(value) of the field, padrao
\* when int raises ValueError; cabe = FALSE stands for a Python int outside
\* -2^31 .. 2^31 - 1, whose value the model does not hold
IntForm(valor, padrao) ==
    IF ~IntValido(valor) THEN [cabe |-> TRUE, valor |-> padrao]
    ELSE IF IntCabe(valor) THEN [cabe |-> TRUE, valor |-> IntDe(valor)]
    ELSE [cabe |-> FALSE, valor |-> 0]

\* str.strip(): the whitespace of str.isspace is taken from both ends
StripStr(s) == SemBrancosFim(SemBrancosInicio(s, BrancosRegex), BrancosRegex)

\* the SQL NULL of a text column
Nulo == <<"NULL">>

\* a statement that stores s in a column of n characters is refused: psycopg2
\* raises ValueError on a NUL character, PostgreSQL raises an error on
\* characters beyond the n-th that are not all blanks
Recusa(s, n) ==
    /\ s # Nulo
    /\ \E i \in 1..Len(s) : s[i] = "U+0000" \/ (i > n /\ s[i] # " ")

\* what a column of n characters stores of s: blanks beyond the n-th are cut
Varchar(s, n) == IF s # Nulo /\ Len(s) > n THEN SubSeq(s, 1, n) ELSE s

\* float(preco.replace(',', '.')), 0.0 on ValueError, tabulated on the price
\* strings the model submits: the amount in centavos as Numeric(10, 2) rounds
\* it; exato: the float equals the Decimal that is stored, so that an
\* assignment of it to a row that holds it is no change; cabe = FALSE: the
\* amount has more than eight digits before the point, which Numeric(10, 2)
\* refuses
PrecoForm(preco) ==
    CASE preco = "100.00" -> [cabe |-> TRUE, centavos |-> 10000, exato |-> TRUE]
      [] preco = "80,00" -> [cabe |-> TRUE, centavos |-> 8000, exato |-> TRUE]
      [] preco = "59.90" -> [cabe |-> TRUE, centavos |-> 5990, exato |-> FALSE]
      [] preco = "1e8" -> [cabe |-> FALSE, centavos |-> 0, exato |-> FALSE]
      [] OTHER -> [cabe |-> TRUE, centavos |-> 0, exato |-> TRUE]

(***************************************************************************)
(* Dates of the forms.  strptime(data, '%Y-%m-%d') is tabulated on the     *)
(* date strings the model submits: the day number, or -1 for ValueError.   *)
(***************************************************************************)
DiaDe(data) ==
    CASE data = "2026-11-02" -> 0
      [] data = "2026-11-03" -> 1
      [] data = "2026-11-08" -> 6
      [] OTHER -> -1

\* mutant of DiaSemana: the week starts on Sunday
DiaSemanaDomingoZero(dia) == (dia + 1) % 7

\* date.weekday(): 0 = Monday ... 6 = Sunday; day 0 is a Monday
DiaSemana(dia) == dia % 7

\* ' %H:%M' of strptime: the blank of the format is \s+ and takes the
\* whitespace before the hour; %H is the regular expression
\* 2[0-3]|[0-1]\d|\d and %M is [0-5]\d|\d; nothing may follow the minute
HoraFormValida(hora) ==
    LET h == SemBrancosInicio(ParteAntes(hora), BrancosRegex)
        m == ParteDepois(hora)
    IN  /\ Cardinality(DoisPontos(hora)) = 1
        /\ \/ Len(h) = 1 /\ EhDigito(h[1])
           \/ Len(h) = 2 /\ h[1] = "2" /\ h[2] \in {"0", "1", "2", "3"}
           \/ Len(h) = 2 /\ h[1] \in {"0", "1"} /\ EhDigito(h[2])
        /\ \/ Len(m) = 1 /\ EhDigito(m[1])
           \/ Len(m) = 2 /\ (\E i \in 1..6 : Digitos[i] = m[1]) /\ EhDigito(m[2])

\* datetime.strptime(f'{data} {hora}', '%Y-%m-%d %H:%M'): minutes, or -1 for ValueError
Strptime(data, hora) ==
    IF DiaDe(data) < 0 \/ ~HoraFormValida(hora) THEN -1
    ELSE DiaDe(data) * MinutosPorDia
         + 60 * ValorDecimal(SemBrancosInicio(ParteAntes(hora), BrancosRegex))
         + ValorDecimal(ParteDepois(hora))

\* datetime.strftime('%H:%M')
Strftime(t) ==
    LET DoisDigitos(n) == <<Digitos[(n \div 10) + 1], Digitos[(n % 10) + 1]>>
    IN  DoisDigitos((t % MinutosPorDia) \div 60) \o <<":">> \o DoisDigitos(t % 60)

\* db.func.date(datetime): the calendar day of a stored datetime
DataDe(t) == t \div MinutosPorDia

H0800 == <<"0", "8", ":", "0", "0">>
H0830 == <<"0", "8", ":", "3", "0">>
H0900 == <<"0", "9", ":", "0", "0">>
H0930 == <<"0", "9", ":", "3", "0">>
H1200 == <<"1", "2", ":", "0", "0">>
H1400 == <<"1", "4", ":", "0", "0">>
H1800 == <<"1", "8", ":", "0", "0">>
H2500 == <<"2", "5", ":", "0", "0">>
HRuim == <<"8", "h", "3", "0">>

(***************************************************************************)
(* State.                                                                  *)
(*   agendamentos  table agendamentos, by id: position i is the row of id  *)
(*                 i; existe = FALSE marks an id that the sequence of the  *)
(*                 table issued to an INSERT that failed                   *)
(*   servicos      table servicos, by id; existe = FALSE marks a row that  *)
(*                 was deleted                                             *)
(*   dentistas     table dentistas, by id, likewise                        *)
(*   usuarios      table usuarios, by id                                   *)
(*   config        the single row of table configuracoes                   *)
(*   now           datetime.now()                                          *)
(*   pc, req       per server worker: the step its request waits for, and  *)
(*                 the locals of the request (what it read, what it is     *)
(*                 about to write)                                         *)
(*   erro          the outcome of the last request answered                *)
(*   horarios      the last answer of /api/horarios-disponiveis, with the  *)
(*                 query it answered                                       *)
(***************************************************************************)
VARIABLES agendamentos, servicos, dentistas, usuarios, config, now, pc, req, erro, horarios

vars == <<agendamentos, servicos, dentistas, usuarios, config, now, pc, req, erro, horarios>>

\* the row of table configuracoes that init_database stores
ConfigPadrao ==
    [nome_clinica |-> <<"D", "e", "n", "t", "a", "l", "S", "y", "s", "t", "e", "m">>,
     telefone_clinica |-> Nulo, endereco_clinica |-> Nulo,
     hora_inicio_manha |-> H0800, hora_fim_manha |-> H1200,
     hora_inicio_tarde |-> H1400, hora_fim_tarde |-> H1800,
     intervalo_consultas |-> 30,
     dias |-> <<TRUE, TRUE, TRUE, TRUE, TRUE, FALSE, FALSE>>]

\* the locals of a request: rota is the view; the other fields are used by
\* the views that need them
\*   paciente_id .. data_hora_fim   the appointment a booking builds
\*   carregado                      the service of the form was among the
\*                                  active services the view listed first
\*   duracao_minutos                the duration read from the service
\*   status, novo_status            the status read from the appointment of
\*                                  id and the status assigned to it
\*   lida, nova                     the row read from a registry table and
\*                                  the values the form assigns to it
\*   recusado                       a validation of the form has failed
\*   linhas                         the length of table agendamentos when
\*                                  the conflict query ran
\*   config, nova_config            the configuration read and assigned
\*   data                           the date asked of the slots API
SemReq ==
    [rota |-> "nenhuma", paciente_id |-> 0, dentista_id |-> 0, servico_id |-> 0,
     data_hora_inicio |-> 0, data_hora_fim |-> 0, carregado |-> FALSE,
     id |-> 0, duracao_minutos |-> 0, status |-> "", novo_status |-> "",
     lida |-> <<>>, nova |-> <<>>, recusado |-> FALSE,
     linhas |-> 0, config |-> ConfigPadrao, nova_config |-> ConfigPadrao, data |-> ""]

SemHorarios == [dentista_id |-> 0, servico_id |-> 0, data |-> "", lista |-> <<>>]

SemAgendamento ==
    [existe |-> FALSE, paciente_id |-> 0, dentista_id |-> 0, servico_id |-> 0,
     data_hora_inicio |-> 0, data_hora_fim |-> 0, status |-> ""]

\* Servico(nome=..., descricao=..., duracao_minutos=..., preco=...): ativo
\* takes its column default; preco is held in centavos
ServicoNovo(nome, descricao, duracao, preco) ==
    [existe |-> TRUE, nome |-> nome, descricao |-> descricao,
     duracao_minutos |-> duracao, preco |-> preco, ativo |-> TRUE]

\* Dentista(nome=..., cro=..., especialidade=...): ativo takes its column default
DentistaNovo(nome, cro, especialidade) ==
    [existe |-> TRUE, nome |-> nome, cro |-> cro, especialidade |-> especialidade,
     ativo |-> TRUE]

\* Usuario(nome=..., email=..., telefone=..., cpf=..., perfil=...)
UsuarioNovo(perfil, nome, email, telefone, cpf) ==
    [existe |-> TRUE, perfil |-> perfil, nome |-> nome, email |-> email,
     telefone |-> telefone, cpf |-> cpf]

\* init_database: the admin, the services Limpeza (30 min), Consulta (30),
\* Clareamento (60), Restauracao (45) and Extracao (30), one dentist, the
\* default configuration; no patient and no appointment yet
Init ==
    /\ agendamentos = <<>>
    /\ servicos =
       <<
          ServicoNovo(<<"L", "i", "m", "p", "e", "z", "a">>,
                      <<"L", "i", "m", "p", "e", "z", "a", " ", "d", "e", "n", "t", "a", "l", " ", "c", "o", "m", "p", "l", "e", "t", "a">>,
                      30, 10000),
          ServicoNovo(<<"C", "o", "n", "s", "u", "l", "t", "a">>,
                      <<"C", "o", "n", "s", "u", "l", "t", "a", " ", "d", "e", " ", "a", "v", "a", "l", "i", "a", "U+00E7", "U+00E3", "o">>,
                      30, 8000),
          ServicoNovo(<<"C", "l", "a", "r", "e", "a", "m", "e", "n", "t", "o">>,
                      <<"C", "l", "a", "r", "e", "a", "m", "e", "n", "t", "o", " ", "d", "e", "n", "t", "a", "l">>,
                      60, 50000),
          ServicoNovo(<<"R", "e", "s", "t", "a", "u", "r", "a", "U+00E7", "U+00E3", "o">>,
                      <<"R", "e", "s", "t", "a", "u", "r", "a", "U+00E7", "U+00E3", "o", " ", "d", "e", " ", "d", "e", "n", "t", "e">>,
                      45, 15000),
          ServicoNovo(<<"E", "x", "t", "r", "a", "U+00E7", "U+00E3", "o">>,
                      <<"E", "x", "t", "r", "a", "U+00E7", "U+00E3", "o", " ", "d", "e", "n", "t", "U+00E1", "r", "i", "a", " ", "s", "i", "m", "p", "l", "e", "s">>,
                      30, 20000)
       >>
    /\ dentistas = <<DentistaNovo(<<"D", "r", ".", " ", "C", "a", "r", "l", "o", "s", " ", "S", "i", "l", "v", "a">>,
                                  <<"1", "2", "3", "4", "5", "-", "S", "P">>,
                                  <<"C", "l", "U+00ED", "n", "i", "c", "o", " ", "G", "e", "r", "a", "l">>)>>
    /\ usuarios = <<UsuarioNovo("admin", <<"A", "d", "m", "i", "n", "i", "s", "t", "r", "a", "d", "o", "r">>,
                                <<"a", "d", "m", "i", "n", "@", "d", "e", "n", "t", "a", "l", "s", "y", "s", "t", "e", "m", ".", "c", "o", "m">>,
                                Nulo, Nulo)>>
    /\ config = ConfigPadrao
    /\ now = 8 * 60
    /\ pc = [w \in Workers |-> "idle"]
    /\ req = [w \in Workers |-> SemReq]
    /\ erro = "nenhum"
    /\ horarios = SemHorarios

\* the worker answers: it is free for the next request
Responde(w) ==
    /\ pc' = [pc EXCEPT ![w] = "idle"]
    /\ req' = [req EXCEPT ![w] = SemReq]

\* the request of the worker goes on to its next statement with locals r
Segue(w, passo, r) ==
    /\ pc' = [pc EXCEPT ![w] = passo]
    /\ req' = [req EXCEPT ![w] = r]
    /\ erro' = erro

\* Usuario.query.get(id) is not None: the user of the session
UsuarioExiste(id) == id \in 1..Len(usuarios) /\ usuarios[id].existe

\* Servico.query.get(id) is not None
ServicoExiste(id) == id \in 1..Len(servicos) /\ servicos[id].existe

\* Dentista.query.get(id) is not None
DentistaExiste(id) == id \in 1..Len(dentistas) /\ dentistas[id].existe

\* Agendamento.query.get(id) is not None
AgendamentoExiste(id) == id \in 1..Len(agendamentos) /\ agendamentos[id].existe

(***************************************************************************)
(* The booking routes.                                                     *)
(***************************************************************************)
\* mutant of EmConflito: the filter forgets the Pending appointments
EmConflitoSoConfirmado(ag, dentista_id, inicio, fim) ==
    /\ ag.dentista_id = dentista_id
    /\ ag.status = "confirmado"
    /\ ag.data_hora_inicio < fim
    /\ ag.data_hora_fim > inicio

\* mutant of EmConflito: the intervals are compared as closed intervals
EmConflitoFechado(ag, dentista_id, inicio, fim) ==
    /\ ag.dentista_id = dentista_id
    /\ ag.status \in StatusAtivos
    /\ ag.data_hora_inicio <= fim
    /\ ag.data_hora_fim >= inicio

\* mutant of EmConflito: the filter forgets the status
EmConflitoQualquerStatus(ag, dentista_id, inicio, fim) ==
    /\ ag.dentista_id = dentista_id
    /\ ag.data_hora_inicio < fim
    /\ ag.data_hora_fim > inicio

\* the filter of the query: same dentist, active status, intervals crossing
EmConflito(ag, dentista_id, inicio, fim) ==
    /\ ag.dentista_id = dentista_id
    /\ ag.status \in StatusAtivos
    /\ ag.data_hora_inicio < fim
    /\ ag.data_hora_fim > inicio

\* Agendamento.query.filter(...).first() is not None
Conflito(ags, dentista_id, inicio, fim) ==
    \E i \in 1..Len(ags) : ags[i].existe /\ EmConflito(ags[i], dentista_id, inicio, fim)

\* mutant of DataHoraFim: timedelta(hours=...) in place of minutes
DataHoraFimEmHoras(inicio, duracao) == inicio + 60 * duracao

\* data_hora_inicio + timedelta(minutes=servico.duracao_minutos)
DataHoraFim(inicio, duracao) == inicio + duracao

\* datetime + timedelta(minutes=duracao) raises OverflowError when the sum
\* falls before 0001-01-01 00:00; day 0 of the model is day 739921 after it
AntesDoAnoUm(inicio, duracao) == duracao < 0 - 739921 * MinutosPorDia - inicio

\* Agendamento(paciente_id=..., ..., status=...)
NovoAgendamento(r, status) ==
    [existe |-> TRUE, paciente_id |-> r.paciente_id, dentista_id |-> r.dentista_id,
     servico_id |-> r.servico_id, data_hora_inicio |-> r.data_hora_inicio,
     data_hora_fim |-> r.data_hora_fim, status |-> status]

\* the foreign keys of table agendamentos, enforced by the INSERT
ChavesValidas(r) ==
    /\ UsuarioExiste(r.paciente_id)
    /\ DentistaExiste(r.dentista_id)
    /\ ServicoExiste(r.servico_id)

RotasReserva == {"agendar", "admin_novo_agendamento"}

\* the booking requests taken, those in course included, bounded by
\* MaxAgendamentos ids of the table
HaVaga ==
    Len(agendamentos)
    + Cardinality({w \in Workers : pc[w] # "idle" /\ req[w].rota \in RotasReserva})
    < MaxAgendamentos

\* Servico.query.filter_by(ativo=True).all() loads the service of the form
ServicoListado(servico_id) == ServicoExiste(servico_id) /\ servicos[servico_id].ativo

\* the locals of a booking after the lists of the form are read: the
\* services are read first, so the duration of a service that is listed is
\* the one read here
Pedido(rota, paciente_id, dentista_id, servico_id, inicio) ==
    [SemReq EXCEPT !.rota = rota, !.paciente_id = paciente_id,
                   !.dentista_id = dentista_id, !.servico_id = servico_id,
                   !.data_hora_inicio = inicio,
                   !.carregado = ServicoListado(servico_id),
                   !.duracao_minutos = IF ServicoListado(servico_id)
                                       THEN servicos[servico_id].duracao_minutos
                                       ELSE 0]

\* Servico.query.get(servico_id) of a booking: the row is looked up again;
\* the object the session already holds keeps the columns it was loaded with
PedidoComServico(r) ==
    LET duracao == IF r.carregado THEN r.duracao_minutos
                   ELSE servicos[r.servico_id].duracao_minutos
    IN [r EXCEPT !.duracao_minutos = duracao,
                 !.data_hora_fim = IF AntesDoAnoUm(r.data_hora_inicio, duracao) THEN 0
                                   ELSE DataHoraFim(r.data_hora_inicio, duracao)]

\* the end of the appointment cannot be computed: OverflowError
SemFim(r) == AntesDoAnoUm(r.data_hora_inicio, PedidoComServico(r).duracao_minutos)

\* POST /paciente/agendar, the validations before the service is looked up
AgendarErro(data, hora) ==
    IF Strptime(data, hora) < 0 THEN "InvalidTime"
    ELSE IF Strptime(data, hora) <= now THEN "InvalidTime"
    ELSE "nenhum"

\* POST /paciente/agendar (current_user = usuario_id): the lists of the page
\* are read, the form is validated
AgendarLeitura(w, usuario_id, dentista_id, servico_id, data, hora) ==
    /\ pc[w] = "idle"
    /\ UsuarioExiste(usuario_id)
    /\ HaVaga
    /\ IF AgendarErro(data, hora) = "nenhum"
       THEN Segue(w, "servico", Pedido("agendar", usuario_id, dentista_id, servico_id,
                                       Strptime(data, hora)))
       ELSE erro' = AgendarErro(data, hora) /\ UNCHANGED <<pc, req>>
    /\ UNCHANGED <<agendamentos, servicos, dentistas, usuarios, config, now, horarios>>

\* POST /paciente/agendar: servico = Servico.query.get(servico_id)
AgendarServico(w) ==
    /\ pc[w] = "servico"
    /\ req[w].rota = "agendar"
    /\ IF ~ServicoExiste(req[w].servico_id) THEN erro' = "NotFound" /\ Responde(w)
       ELSE IF SemFim(req[w]) THEN erro' = "Fault" /\ Responde(w)
       ELSE Segue(w, "consulta", PedidoComServico(req[w]))
    /\ UNCHANGED <<agendamentos, servicos, dentistas, usuarios, config, now, horarios>>

\* POST /paciente/agendar: the conflict query
AgendarConsulta(w) ==
    /\ pc[w] = "consulta"
    /\ req[w].rota = "agendar"
    /\ IF Conflito(agendamentos, req[w].dentista_id,
                   req[w].data_hora_inicio, req[w].data_hora_fim)
       THEN erro' = "SlotTaken" /\ Responde(w)
       ELSE Segue(w, "commit", [req[w] EXCEPT !.linhas = Len(agendamentos)])
    /\ UNCHANGED <<agendamentos, servicos, dentistas, usuarios, config, now, horarios>>

\* POST /paciente/agendar: db.session.add(novo_agendamento), db.session.commit();
\* an INSERT that a foreign key refuses has taken its id from the sequence
AgendarCommit(w) ==
    /\ pc[w] = "commit"
    /\ req[w].rota = "agendar"
    /\ erro' = IF ChavesValidas(req[w]) THEN "ok" ELSE "Fault"
    /\ agendamentos' = IF ChavesValidas(req[w])
                       THEN Append(agendamentos, NovoAgendamento(req[w], "pendente"))
                       ELSE Append(agendamentos, SemAgendamento)
    /\ Responde(w)
    /\ UNCHANGED <<servicos, dentistas, usuarios, config, now, horarios>>

\* POST /admin/agendamento/novo, the validations before the service is looked up
AdminNovoAgendamentoErro(data, hora) ==
    IF Strptime(data, hora) < 0 THEN "InvalidTime" ELSE "nenhum"

\* POST /admin/agendamento/novo: the lists of the page are read, the form is
\* validated
AdminNovoAgendamentoLeitura(w, paciente_id, dentista_id, servico_id, data, hora) ==
    /\ pc[w] = "idle"
    /\ HaVaga
    /\ IF AdminNovoAgendamentoErro(data, hora) = "nenhum"
       THEN Segue(w, "servico", Pedido("admin_novo_agendamento", paciente_id, dentista_id,
                                       servico_id, Strptime(data, hora)))
       ELSE erro' = AdminNovoAgendamentoErro(data, hora) /\ UNCHANGED <<pc, req>>
    /\ UNCHANGED <<agendamentos, servicos, dentistas, usuarios, config, now, horarios>>

\* POST /admin/agendamento/novo: servico = Servico.query.get(servico_id)
AdminNovoAgendamentoServico(w) ==
    /\ pc[w] = "servico"
    /\ req[w].rota = "admin_novo_agendamento"
    /\ IF ~ServicoExiste(req[w].servico_id) THEN erro' = "NotFound" /\ Responde(w)
       ELSE IF SemFim(req[w]) THEN erro' = "Fault" /\ Responde(w)
       ELSE Segue(w, "consulta", PedidoComServico(req[w]))
    /\ UNCHANGED <<agendamentos, servicos, dentistas, usuarios, config, now, horarios>>

\* POST /admin/agendamento/novo: the conflict query
AdminNovoAgendamentoConsulta(w) ==
    /\ pc[w] = "consulta"
    /\ req[w].rota = "admin_novo_agendamento"
    /\ IF Conflito(agendamentos, req[w].dentista_id,
                   req[w].data_hora_inicio, req[w].data_hora_fim)
       THEN erro' = "SlotTaken" /\ Responde(w)
       ELSE Segue(w, "commit", [req[w] EXCEPT !.linhas = Len(agendamentos)])
    /\ UNCHANGED <<agendamentos, servicos, dentistas, usuarios, config, now, horarios>>

\* POST /admin/agendamento/novo: db.session.add(novo_agendamento), db.session.commit()
AdminNovoAgendamentoCommit(w) ==
    /\ pc[w] = "commit"
    /\ req[w].rota = "admin_novo_agendamento"
    /\ erro' = IF ChavesValidas(req[w]) THEN "ok" ELSE "Fault"
    /\ agendamentos' = IF ChavesValidas(req[w])
                       THEN Append(agendamentos, NovoAgendamento(req[w], "confirmado"))
                       ELSE Append(agendamentos, SemAgendamento)
    /\ Responde(w)
    /\ UNCHANGED <<servicos, dentistas, usuarios, config, now, horarios>>

(***************************************************************************)
(* Cancellation by the patient, status update by the admin.                *)
(***************************************************************************)
\* mutant of CancelarErro: the ownership check is left out
CancelarErroSemDono(id, usuario_id) ==
    IF ~AgendamentoExiste(id) THEN "NotFound"
    ELSE IF agendamentos[id].status \in StatusFinais THEN "AlreadyTerminal"
    ELSE "nenhum"

\* mutant of CancelarErro: only a Cancelled appointment is refused
CancelarErroSoCancelado(id, usuario_id) ==
    IF ~AgendamentoExiste(id) THEN "NotFound"
    ELSE IF agendamentos[id].paciente_id # usuario_id THEN "Forbidden"
    ELSE IF agendamentos[id].status = "cancelado" THEN "AlreadyTerminal"
    ELSE "nenhum"

\* POST /paciente/cancelar/<id>: get_or_404 and the two checks
CancelarErro(id, usuario_id) ==
    IF ~AgendamentoExiste(id) THEN "NotFound"
    ELSE IF agendamentos[id].paciente_id # usuario_id THEN "Forbidden"
    ELSE IF agendamentos[id].status \in StatusFinais THEN "AlreadyTerminal"
    ELSE "nenhum"

\* POST /paciente/cancelar/<id> (current_user = usuario_id): the row is read
\* and checked
CancelarAgendamentoLeitura(w, usuario_id, id) ==
    /\ pc[w] = "idle"
    /\ UsuarioExiste(usuario_id)
    /\ IF CancelarErro(id, usuario_id) = "nenhum"
       THEN Segue(w, "commit", [SemReq EXCEPT !.rota = "cancelar_agendamento", !.id = id,
                                              !.status = agendamentos[id].status])
       ELSE erro' = CancelarErro(id, usuario_id) /\ UNCHANGED <<pc, req>>
    /\ UNCHANGED <<agendamentos, servicos, dentistas, usuarios, config, now, horarios>>

\* POST /paciente/cancelar/<id>: agendamento.status = 'cancelado',
\* db.session.commit(): UPDATE ... SET status WHERE id
CancelarAgendamentoCommit(w) ==
    /\ pc[w] = "commit"
    /\ req[w].rota = "cancelar_agendamento"
    /\ agendamentos' = [agendamentos EXCEPT ![req[w].id].status = "cancelado"]
    /\ erro' = "ok"
    /\ Responde(w)
    /\ UNCHANGED <<servicos, dentistas, usuarios, config, now, horarios>>

\* mutant of AtualizarStatusErro: the status of the form is not checked
AtualizarStatusErroLivre(id, novo_status) ==
    IF ~AgendamentoExiste(id) THEN "NotFound" ELSE "nenhum"

\* POST /admin/agendamento/<id>/status: get_or_404 and the check of the form
AtualizarStatusErro(id, novo_status) ==
    IF ~AgendamentoExiste(id) THEN "NotFound"
    ELSE IF novo_status \in StatusAceitos THEN "nenhum"
    ELSE "InvalidStatus"

\* POST /admin/agendamento/<id>/status: the row is read, the form is checked
AtualizarStatusAgendamentoLeitura(w, id, novo_status) ==
    /\ pc[w] = "idle"
    /\ IF AtualizarStatusErro(id, novo_status) = "nenhum"
       THEN Segue(w, "commit", [SemReq EXCEPT !.rota = "atualizar_status_agendamento",
                                              !.id = id,
                                              !.status = agendamentos[id].status,
                                              !.novo_status = novo_status])
       ELSE erro' = AtualizarStatusErro(id, novo_status) /\ UNCHANGED <<pc, req>>
    /\ UNCHANGED <<agendamentos, servicos, dentistas, usuarios, config, now, horarios>>

\* POST /admin/agendamento/<id>/status: agendamento.status = novo_status,
\* db.session.commit(): the UPDATE is issued when the status assigned differs
\* from the status read
AtualizarStatusAgendamentoCommit(w) ==
    /\ pc[w] = "commit"
    /\ req[w].rota = "atualizar_status_agendamento"
    /\ agendamentos' = IF req[w].novo_status # req[w].status
                       THEN [agendamentos EXCEPT ![req[w].id].status = req[w].novo_status]
                       ELSE agendamentos
    /\ erro' = "ok"
    /\ Responde(w)
    /\ UNCHANGED <<servicos, dentistas, usuarios, config, now, horarios>>

\* the clock advances, to 08:00 and to 08:30 of day 0
Tick ==
    /\ \E t \in {8 * 60, 8 * 60 + 30} : t > now /\ now' = t
    /\ UNCHANGED <<agendamentos, servicos, dentistas, usuarios, config, pc, req, erro, horarios>>

(***************************************************************************)
(* The registry of users, services and dentists.  A form is a record of    *)
(* the fields submitted, each as the string typed.                         *)
(***************************************************************************)
\* Usuario.query.filter_by(email=email).first() is not None
EmailCadastrado(email) ==
    \E i \in 1..Len(usuarios) : usuarios[i].existe /\ usuarios[i].email = email

\* Usuario.query.filter_by(cpf=cpf).first() is not None
CpfCadastrado(cpf) ==
    \E i \in 1..Len(usuarios) : usuarios[i].existe /\ usuarios[i].cpf = cpf

\* a NUL character in the parameter of a query: psycopg2 raises ValueError
TemNul(s) == \E i \in 1..Len(s) : s[i] = "U+0000"

\* not email or '@' not in email
EmailInvalido(email) == ~\E i \in 1..Len(email) : email[i] = "@"

\* POST /register: the fields are taken from the form (f) and validated;
\* the first query of the view is the query by email when the email is well
\* formed, the query by CPF when it is not and a CPF is given.  The users
\* added by register and novo_paciente, those in course included, are
\* bounded by the ids of UsuarioIds
RegisterLeitura(w, form) ==
    LET f == [nome |-> StripStr(form.nome), email |-> StripStr(form.email),
              telefone |-> StripStr(form.telefone), cpf |-> StripStr(form.cpf),
              senha |-> form.senha, confirmar_senha |-> form.confirmar_senha]
        r == [SemReq EXCEPT !.rota = "register", !.nova = f,
                            !.recusado = \/ Len(f.nome) < 3
                                         \/ EmailInvalido(f.email)
                                         \/ EmailCadastrado(f.email)
                                         \/ Len(f.senha) < 6
                                         \/ f.senha # f.confirmar_senha]
    IN
    /\ pc[w] = "idle"
    /\ Len(usuarios)
       + Cardinality({v \in Workers : /\ pc[v] # "idle"
                                      /\ req[v].rota \in {"register", "novo_paciente"}})
       < Cardinality(UsuarioIds)
    /\ IF EmailInvalido(f.email)
       THEN /\ erro' = IF f.cpf # <<>> /\ TemNul(f.cpf) THEN "Fault" ELSE "Refused"
            /\ UNCHANGED <<pc, req>>
       ELSE IF TemNul(f.email) THEN erro' = "Fault" /\ UNCHANGED <<pc, req>>
       ELSE IF f.cpf # <<>> THEN Segue(w, "cpf", r)
       ELSE IF r.recusado THEN erro' = "Refused" /\ UNCHANGED <<pc, req>>
       ELSE Segue(w, "commit", r)
    /\ UNCHANGED <<agendamentos, servicos, dentistas, usuarios, config, now, horarios>>

\* POST /register: Usuario.query.filter_by(cpf=cpf).first(), then the
\* validations of the password; the form is refused when a validation failed
RegisterCpf(w) ==
    /\ pc[w] = "cpf"
    /\ req[w].rota = "register"
    /\ IF TemNul(req[w].nova.cpf) THEN erro' = "Fault" /\ Responde(w)
       ELSE IF req[w].recusado \/ CpfCadastrado(req[w].nova.cpf)
       THEN erro' = "Refused" /\ Responde(w)
       ELSE Segue(w, "commit", req[w])
    /\ UNCHANGED <<agendamentos, servicos, dentistas, usuarios, config, now, horarios>>

\* the row of Usuario(nome=nome, email=email, telefone=telefone,
\* cpf=cpf if cpf else None, perfil='paciente')
UsuarioDoForm(f) ==
    UsuarioNovo("paciente", Varchar(f.nome, 100), Varchar(f.email, 100),
                Varchar(f.telefone, 20), IF f.cpf = <<>> THEN Nulo ELSE Varchar(f.cpf, 14))

\* the outcome of the INSERT of a registration: "Recusa" when a value is
\* refused before a row is made, "Unico" when the email or the CPF is held
\* by a row that was committed after the queries of the view
RegisterResultado(f) ==
    IF \/ Recusa(f.nome, 100) \/ Recusa(f.email, 100)
       \/ Recusa(f.telefone, 20) \/ Recusa(f.cpf, 14) THEN "Recusa"
    ELSE IF \/ EmailCadastrado(UsuarioDoForm(f).email)
            \/ (f.cpf # <<>> /\ CpfCadastrado(UsuarioDoForm(f).cpf)) THEN "Unico"
    ELSE "ok"

\* POST /register: db.session.add(novo_usuario), db.session.commit(); an
\* INSERT that a unique constraint refuses has taken its id from the sequence
RegisterCommit(w) ==
    /\ pc[w] = "commit"
    /\ req[w].rota = "register"
    /\ erro' = IF RegisterResultado(req[w].nova) = "ok" THEN "ok" ELSE "Fault"
    /\ usuarios' = CASE RegisterResultado(req[w].nova) = "ok" ->
                          Append(usuarios, UsuarioDoForm(req[w].nova))
                     [] RegisterResultado(req[w].nova) = "Unico" ->
                          Append(usuarios,
                                 [existe |-> FALSE, perfil |-> "", nome |-> <<>>,
                                  email |-> <<>>, telefone |-> Nulo, cpf |-> Nulo])
                     [] OTHER -> usuarios
    /\ Responde(w)
    /\ UNCHANGED <<agendamentos, servicos, dentistas, config, now, horarios>>

\* POST /admin/pacientes/novo: the fields are taken from the form (f) and
\* validated as register validates them, without the confirmation of the
\* password; the first query of the view is the query by email when the
\* email is well formed, the query by CPF when it is not and a CPF is given
NovoPacienteLeitura(w, form) ==
    LET f == [nome |-> StripStr(form.nome), email |-> StripStr(form.email),
              telefone |-> StripStr(form.telefone), cpf |-> StripStr(form.cpf),
              senha |-> form.senha]
        r == [SemReq EXCEPT !.rota = "novo_paciente", !.nova = f,
                            !.recusado = \/ Len(f.nome) < 3
                                         \/ EmailInvalido(f.email)
                                         \/ EmailCadastrado(f.email)
                                         \/ Len(f.senha) < 6]
    IN
    /\ pc[w] = "idle"
    /\ Len(usuarios)
       + Cardinality({v \in Workers : /\ pc[v] # "idle"
                                      /\ req[v].rota \in {"register", "novo_paciente"}})
       < Cardinality(UsuarioIds)
    /\ IF EmailInvalido(f.email)
       THEN /\ erro' = IF f.cpf # <<>> /\ TemNul(f.cpf) THEN "Fault" ELSE "Refused"
            /\ UNCHANGED <<pc, req>>
       ELSE IF TemNul(f.email) THEN erro' = "Fault" /\ UNCHANGED <<pc, req>>
       ELSE IF f.cpf # <<>> THEN Segue(w, "cpf", r)
       ELSE IF r.recusado THEN erro' = "Refused" /\ UNCHANGED <<pc, req>>
       ELSE Segue(w, "commit", r)
    /\ UNCHANGED <<agendamentos, servicos, dentistas, usuarios, config, now, horarios>>

\* POST /admin/pacientes/novo: Usuario.query.filter_by(cpf=cpf).first(), then
\* the validation of the password; the form is refused when a validation
\* failed
NovoPacienteCpf(w) ==
    /\ pc[w] = "cpf"
    /\ req[w].rota = "novo_paciente"
    /\ IF TemNul(req[w].nova.cpf) THEN erro' = "Fault" /\ Responde(w)
       ELSE IF req[w].recusado \/ CpfCadastrado(req[w].nova.cpf)
       THEN erro' = "Refused" /\ Responde(w)
       ELSE Segue(w, "commit", req[w])
    /\ UNCHANGED <<agendamentos, servicos, dentistas, usuarios, config, now, horarios>>

\* POST /admin/pacientes/novo: db.session.add(novo_paciente),
\* db.session.commit(); an INSERT that a unique constraint refuses has taken
\* its id from the sequence
NovoPacienteCommit(w) ==
    /\ pc[w] = "commit"
    /\ req[w].rota = "novo_paciente"
    /\ erro' = IF RegisterResultado(req[w].nova) = "ok" THEN "ok" ELSE "Fault"
    /\ usuarios' = CASE RegisterResultado(req[w].nova) = "ok" ->
                          Append(usuarios, UsuarioDoForm(req[w].nova))
                     [] RegisterResultado(req[w].nova) = "Unico" ->
                          Append(usuarios,
                                 [existe |-> FALSE, perfil |-> "", nome |-> <<>>,
                                  email |-> <<>>, telefone |-> Nulo, cpf |-> Nulo])
                     [] OTHER -> usuarios
    /\ Responde(w)
    /\ UNCHANGED <<agendamentos, servicos, dentistas, config, now, horarios>>

\* POST /admin/pacientes/<id>/editar: get_or_404 and the assignments of nome
\* and telefone (the password and ativo are columns the model does not hold)
EditarPacienteLeitura(w, id, form) ==
    /\ pc[w] = "idle"
    /\ IF UsuarioExiste(id)
       THEN Segue(w, "commit", [SemReq EXCEPT !.rota = "editar_paciente", !.id = id,
                                              !.lida = usuarios[id],
                                              !.nova = [nome |-> StripStr(form.nome),
                                                        telefone |-> StripStr(form.telefone)]])
       ELSE erro' = "NotFound" /\ UNCHANGED <<pc, req>>
    /\ UNCHANGED <<agendamentos, servicos, dentistas, usuarios, config, now, horarios>>

\* POST /admin/pacientes/<id>/editar: db.session.commit(): UPDATE usuarios
\* SET <the columns whose value assigned differs from the value read> WHERE
\* id; an error when the UPDATE is refused for one of its values.  No route
\* deletes a user, so the UPDATE matches its row
EditarPacienteCommit(w) ==
    LET r == req[w]
        alterado == {c \in {"nome", "telefone"} : r.nova[c] # r.lida[c]}
        recusado == \/ "nome" \in alterado /\ Recusa(r.nova.nome, 100)
                    \/ "telefone" \in alterado /\ Recusa(r.nova.telefone, 20)
    IN
    /\ pc[w] = "commit"
    /\ r.rota = "editar_paciente"
    /\ erro' = IF recusado THEN "Fault" ELSE "ok"
    /\ usuarios' =
          IF recusado THEN usuarios
          ELSE [usuarios EXCEPT
                  ![r.id].nome = IF "nome" \in alterado
                                 THEN Varchar(r.nova.nome, 100) ELSE @,
                  ![r.id].telefone = IF "telefone" \in alterado
                                     THEN Varchar(r.nova.telefone, 20) ELSE @]
    /\ Responde(w)
    /\ UNCHANGED <<agendamentos, servicos, dentistas, config, now, horarios>>

\* request.form.get('duracao_minutos', 30, type=int)
DuracaoForm(valor) == IntForm(valor, 30)

\* the values novo_servico and editar_servico take from the form
ServicoForm(form) ==
    [nome |-> StripStr(form.nome), descricao |-> StripStr(form.descricao),
     duracao_minutos |-> DuracaoForm(form.duracao_minutos),
     preco |-> PrecoForm(form.preco), ativo |-> form.ativo]

\* the statement that stores the columns cols of the service values f is
\* refused: a text that the column does not take, a duration outside the
\* Integer column, a price outside Numeric(10, 2)
ServicoRecusado(f, cols) ==
    \/ "nome" \in cols /\ Recusa(f.nome, 100)
    \/ "descricao" \in cols /\ TemNul(f.descricao)
    \/ "duracao_minutos" \in cols /\ ~f.duracao_minutos.cabe
    \/ "preco" \in cols /\ ~f.preco.cabe

\* POST /admin/servicos/novo: db.session.add(servico), db.session.commit();
\* an INSERT that is refused for one of its values stores nothing and takes
\* no id
NovoServico(form) ==
    LET f == ServicoForm(form) IN
    /\ Len(servicos) + 1 \in ServicoIds
    /\ IF ServicoRecusado(f, {"nome", "descricao", "duracao_minutos", "preco"})
       THEN erro' = "Fault" /\ servicos' = servicos
       ELSE /\ erro' = "ok"
            /\ servicos' = Append(servicos,
                                  ServicoNovo(Varchar(f.nome, 100), f.descricao,
                                              f.duracao_minutos.valor, f.preco.centavos))
    /\ UNCHANGED <<agendamentos, dentistas, usuarios, config, now, pc, req, horarios>>

\* servico.agendamentos / dentista.agendamentos: the rows that reference it
AgendamentosDoServico(id) ==
    {i \in 1..Len(agendamentos) : agendamentos[i].existe /\ agendamentos[i].servico_id = id}

AgendamentosDoDentista(id) ==
    {i \in 1..Len(agendamentos) : agendamentos[i].existe /\ agendamentos[i].dentista_id = id}

\* POST /admin/servicos/<id>/editar: the row is read, the form is assigned
EditarServicoLeitura(w, id, form) ==
    /\ pc[w] = "idle"
    /\ IF ServicoExiste(id)
       THEN Segue(w, "commit", [SemReq EXCEPT !.rota = "editar_servico", !.id = id,
                                              !.lida = servicos[id],
                                              !.nova = ServicoForm(form)])
       ELSE erro' = "NotFound" /\ UNCHANGED <<pc, req>>
    /\ UNCHANGED <<agendamentos, servicos, dentistas, usuarios, config, now, horarios>>

\* the columns of the service whose value assigned differs from the value
\* read; the price assigned is a float, the price read a Decimal
ServicoAlterado(r) ==
    {c \in {"nome", "descricao", "ativo"} : r.nova[c] # r.lida[c]}
    \cup (IF r.nova.duracao_minutos.cabe
             /\ r.nova.duracao_minutos.valor = r.lida.duracao_minutos
          THEN {} ELSE {"duracao_minutos"})
    \cup (IF r.nova.preco.cabe /\ r.nova.preco.exato
             /\ r.nova.preco.centavos = r.lida.preco
          THEN {} ELSE {"preco"})

\* UPDATE servicos SET <the columns changed> WHERE id
ServicoGravado(linha, r) ==
    [linha EXCEPT !.nome = IF "nome" \in ServicoAlterado(r)
                           THEN Varchar(r.nova.nome, 100) ELSE @,
                  !.descricao = IF "descricao" \in ServicoAlterado(r)
                                THEN r.nova.descricao ELSE @,
                  !.duracao_minutos = IF "duracao_minutos" \in ServicoAlterado(r)
                                      THEN r.nova.duracao_minutos.valor ELSE @,
                  !.preco = IF "preco" \in ServicoAlterado(r)
                            THEN r.nova.preco.centavos ELSE @,
                  !.ativo = IF "ativo" \in ServicoAlterado(r) THEN r.nova.ativo ELSE @]

\* the outcome of the commit of an edition: no statement when nothing
\* changed, an error when the UPDATE is refused for one of its values,
\* StaleDataError when the UPDATE matches no row
EditarServicoResultado(r) ==
    IF ServicoAlterado(r) = {} THEN "ok"
    ELSE IF ServicoRecusado(r.nova, ServicoAlterado(r)) THEN "Fault"
    ELSE IF ~ServicoExiste(r.id) THEN "Fault"
    ELSE "ok"

\* mutant of EditarServicoCommit: the end of every appointment of the
\* service is recomputed from the new duration
EditarServicoCommitRecalcula(w) ==
    LET grava == ServicoAlterado(req[w]) # {} /\ EditarServicoResultado(req[w]) = "ok" IN
    /\ pc[w] = "commit"
    /\ req[w].rota = "editar_servico"
    /\ erro' = EditarServicoResultado(req[w])
    /\ servicos' = IF grava
                   THEN [servicos EXCEPT ![req[w].id] = ServicoGravado(@, req[w])]
                   ELSE servicos
    /\ agendamentos' =
          IF grava
          THEN [i \in 1..Len(agendamentos) |->
                  IF agendamentos[i].servico_id = req[w].id
                  THEN [agendamentos[i] EXCEPT
                          !.data_hora_fim = agendamentos[i].data_hora_inicio
                                            + req[w].nova.duracao_minutos.valor]
                  ELSE agendamentos[i]]
          ELSE agendamentos
    /\ Responde(w)
    /\ UNCHANGED <<dentistas, usuarios, config, now, horarios>>

\* POST /admin/servicos/<id>/editar: db.session.commit()
EditarServicoCommit(w) ==
    /\ pc[w] = "commit"
    /\ req[w].rota = "editar_servico"
    /\ erro' = EditarServicoResultado(req[w])
    /\ servicos' = IF ServicoAlterado(req[w]) # {} /\ EditarServicoResultado(req[w]) = "ok"
                   THEN [servicos EXCEPT ![req[w].id] = ServicoGravado(@, req[w])]
                   ELSE servicos
    /\ Responde(w)
    /\ UNCHANGED <<agendamentos, dentistas, usuarios, config, now, horarios>>

\* mutant of ExcluirServicoErro: the linked appointments are not looked at
ExcluirServicoErroSemVerificar(id) ==
    IF ~ServicoExiste(id) THEN "NotFound" ELSE "nenhum"

\* POST /admin/servicos/<id>/excluir: get_or_404 and servico.agendamentos
ExcluirServicoErro(id) ==
    IF ~ServicoExiste(id) THEN "NotFound"
    ELSE IF AgendamentosDoServico(id) # {} THEN "InUse"
    ELSE "nenhum"

\* POST /admin/servicos/<id>/excluir: the row and its appointments are read
ExcluirServicoLeitura(w, id) ==
    /\ pc[w] = "idle"
    /\ IF ExcluirServicoErro(id) = "nenhum"
       THEN Segue(w, "commit", [SemReq EXCEPT !.rota = "excluir_servico", !.id = id])
       ELSE erro' = ExcluirServicoErro(id) /\ UNCHANGED <<pc, req>>
    /\ UNCHANGED <<agendamentos, servicos, dentistas, usuarios, config, now, horarios>>

\* POST /admin/servicos/<id>/excluir: db.session.delete(servico),
\* db.session.commit(): a DELETE that matches no row is a warning; a row
\* that an appointment references by now is kept by the foreign key
ExcluirServicoCommit(w) ==
    /\ pc[w] = "commit"
    /\ req[w].rota = "excluir_servico"
    /\ erro' = IF ServicoExiste(req[w].id) /\ AgendamentosDoServico(req[w].id) # {}
               THEN "Fault" ELSE "ok"
    /\ servicos' = IF ServicoExiste(req[w].id) /\ AgendamentosDoServico(req[w].id) = {}
                   THEN [servicos EXCEPT ![req[w].id] =
                            [existe |-> FALSE, nome |-> <<>>, descricao |-> <<>>,
                             duracao_minutos |-> 0, preco |-> 0, ativo |-> FALSE]]
                   ELSE servicos
    /\ Responde(w)
    /\ UNCHANGED <<agendamentos, dentistas, usuarios, config, now, horarios>>

\* Dentista.query.filter_by(cro=cro).first() is not None
CroCadastrado(cro) ==
    \E i \in 1..Len(dentistas) : dentistas[i].existe /\ dentistas[i].cro = cro

\* the values novo_dentista and editar_dentista take from the form
DentistaForm(form) ==
    [nome |-> StripStr(form.nome), cro |-> StripStr(form.cro),
     especialidade |-> StripStr(form.especialidade), ativo |-> form.ativo]

\* POST /admin/dentistas/novo: the CRO of the form is looked up.  The
\* dentist requests taken, those in course included, are bounded by the ids
\* of DentistaIds
NovoDentistaLeitura(w, form) ==
    LET f == DentistaForm(form) IN
    /\ pc[w] = "idle"
    /\ Len(dentistas)
       + Cardinality({v \in Workers : pc[v] # "idle" /\ req[v].rota = "novo_dentista"})
       < Cardinality(DentistaIds)
    /\ IF TemNul(f.cro) THEN erro' = "Fault" /\ UNCHANGED <<pc, req>>
       ELSE IF CroCadastrado(f.cro) THEN erro' = "Refused" /\ UNCHANGED <<pc, req>>
       ELSE Segue(w, "commit", [SemReq EXCEPT !.rota = "novo_dentista", !.nova = f])
    /\ UNCHANGED <<agendamentos, servicos, dentistas, usuarios, config, now, horarios>>

\* POST /admin/dentistas/novo: db.session.add(dentista), db.session.commit().
\* The outcome of the INSERT is "Recusa" when a value is refused before a row
\* is made, "Unico" when the CRO is held by a row that was committed after
\* the query of the view: an INSERT that the unique constraint refuses has
\* taken its id from the sequence
NovoDentistaCommit(w) ==
    LET f == req[w].nova
        resultado ==
            IF Recusa(f.nome, 100) \/ Recusa(f.cro, 20) \/ Recusa(f.especialidade, 100)
            THEN "Recusa"
            ELSE IF CroCadastrado(Varchar(f.cro, 20)) THEN "Unico"
            ELSE "ok"
    IN
    /\ pc[w] = "commit"
    /\ req[w].rota = "novo_dentista"
    /\ erro' = IF resultado = "ok" THEN "ok" ELSE "Fault"
    /\ dentistas' = CASE resultado = "ok" ->
                           Append(dentistas,
                                  DentistaNovo(Varchar(f.nome, 100), Varchar(f.cro, 20),
                                               Varchar(f.especialidade, 100)))
                      [] resultado = "Unico" ->
                           Append(dentistas,
                                  [existe |-> FALSE, nome |-> <<>>, cro |-> <<>>,
                                   especialidade |-> <<>>, ativo |-> FALSE])
                      [] OTHER -> dentistas
    /\ Responde(w)
    /\ UNCHANGED <<agendamentos, servicos, usuarios, config, now, horarios>>

\* POST /admin/dentistas/<id>/editar: the row is read, the form is assigned
\* (nome, especialidade, ativo: the CRO of the form is not read)
EditarDentistaLeitura(w, id, form) ==
    /\ pc[w] = "idle"
    /\ IF DentistaExiste(id)
       THEN Segue(w, "commit", [SemReq EXCEPT !.rota = "editar_dentista", !.id = id,
                                              !.lida = dentistas[id],
                                              !.nova = DentistaForm(form)])
       ELSE erro' = "NotFound" /\ UNCHANGED <<pc, req>>
    /\ UNCHANGED <<agendamentos, servicos, dentistas, usuarios, config, now, horarios>>

\* POST /admin/dentistas/<id>/editar: db.session.commit(): UPDATE dentistas
\* SET <the columns whose value assigned differs from the value read> WHERE
\* id.  No statement when nothing changed, an error when the UPDATE is
\* refused for one of its values, StaleDataError when the UPDATE matches no
\* row
EditarDentistaCommit(w) ==
    LET r == req[w]
        alterado == {c \in {"nome", "especialidade", "ativo"} : r.nova[c] # r.lida[c]}
        resultado ==
            IF alterado = {} THEN "ok"
            ELSE IF \/ "nome" \in alterado /\ Recusa(r.nova.nome, 100)
                    \/ "especialidade" \in alterado /\ Recusa(r.nova.especialidade, 100)
                 THEN "Fault"
            ELSE IF ~DentistaExiste(r.id) THEN "Fault"
            ELSE "ok"
    IN
    /\ pc[w] = "commit"
    /\ r.rota = "editar_dentista"
    /\ erro' = resultado
    /\ dentistas' =
          IF alterado # {} /\ resultado = "ok"
          THEN [dentistas EXCEPT
                  ![r.id].nome = IF "nome" \in alterado
                                 THEN Varchar(r.nova.nome, 100) ELSE @,
                  ![r.id].especialidade = IF "especialidade" \in alterado
                                          THEN Varchar(r.nova.especialidade, 100) ELSE @,
                  ![r.id].ativo = IF "ativo" \in alterado THEN r.nova.ativo ELSE @]
          ELSE dentistas
    /\ Responde(w)
    /\ UNCHANGED <<agendamentos, servicos, usuarios, config, now, horarios>>

\* POST /admin/dentistas/<id>/excluir: get_or_404 and dentista.agendamentos
ExcluirDentistaErro(id) ==
    IF ~DentistaExiste(id) THEN "NotFound"
    ELSE IF AgendamentosDoDentista(id) # {} THEN "InUse"
    ELSE "nenhum"

\* POST /admin/dentistas/<id>/excluir: the row and its appointments are read
ExcluirDentistaLeitura(w, id) ==
    /\ pc[w] = "idle"
    /\ IF ExcluirDentistaErro(id) = "nenhum"
       THEN Segue(w, "commit", [SemReq EXCEPT !.rota = "excluir_dentista", !.id = id])
       ELSE erro' = ExcluirDentistaErro(id) /\ UNCHANGED <<pc, req>>
    /\ UNCHANGED <<agendamentos, servicos, dentistas, usuarios, config, now, horarios>>

\* POST /admin/dentistas/<id>/excluir: db.session.delete(dentista),
\* db.session.commit()
ExcluirDentistaCommit(w) ==
    /\ pc[w] = "commit"
    /\ req[w].rota = "excluir_dentista"
    /\ erro' = IF DentistaExiste(req[w].id) /\ AgendamentosDoDentista(req[w].id) # {}
               THEN "Fault" ELSE "ok"
    /\ dentistas' = IF DentistaExiste(req[w].id) /\ AgendamentosDoDentista(req[w].id) = {}
                    THEN [dentistas EXCEPT ![req[w].id] =
                            [existe |-> FALSE, nome |-> <<>>, cro |-> <<>>,
                             especialidade |-> <<>>, ativo |-> FALSE]]
                    ELSE dentistas
    /\ Responde(w)
    /\ UNCHANGED <<agendamentos, servicos, usuarios, config, now, horarios>>

(***************************************************************************)
(* The configuration of the clinic and the available-slots API.            *)
(***************************************************************************)
\* request.form.get('intervalo_consultas', 30, type=int)
IntervaloForm(valor) == IntForm(valor, 30)

\* the values the view assigns to the row: the form is the record of the
\* row with intervalo_consultas as the string submitted; the three texts of
\* the clinic are stripped, the four shift bounds are taken as they are
ConfigForm(form) ==
    [form EXCEPT !.nome_clinica = StripStr(form.nome_clinica),
                 !.telefone_clinica = StripStr(form.telefone_clinica),
                 !.endereco_clinica = StripStr(form.endereco_clinica),
                 !.intervalo_consultas = IntervaloForm(form.intervalo_consultas)]

\* POST /admin/configuracoes: the row is read, the form is assigned
AdminConfiguracoesLeitura(w, form) ==
    /\ pc[w] = "idle"
    /\ Segue(w, "commit", [SemReq EXCEPT !.rota = "admin_configuracoes",
                                         !.config = config,
                                         !.nova_config = ConfigForm(form)])
    /\ UNCHANGED <<agendamentos, servicos, dentistas, usuarios, config, now, horarios>>

\* UPDATE configuracoes SET <the columns whose value assigned differs from
\* the value read>
ConfigGravada(atual, lida, nova) ==
    LET texto(c, n) == IF nova[c] # lida[c] THEN Varchar(nova[c], n) ELSE atual[c] IN
    [nome_clinica |-> texto("nome_clinica", 200),
     telefone_clinica |-> texto("telefone_clinica", 20),
     endereco_clinica |-> texto("endereco_clinica", 300),
     hora_inicio_manha |-> texto("hora_inicio_manha", 5),
     hora_fim_manha |-> texto("hora_fim_manha", 5),
     hora_inicio_tarde |-> texto("hora_inicio_tarde", 5),
     hora_fim_tarde |-> texto("hora_fim_tarde", 5),
     intervalo_consultas |-> IF nova.intervalo_consultas.valor # lida.intervalo_consultas
                             THEN nova.intervalo_consultas.valor
                             ELSE atual.intervalo_consultas,
     dias |-> LET dia(d) == IF nova.dias[d] # lida.dias[d]
                            THEN nova.dias[d] ELSE atual.dias[d]
              IN <<dia(1), dia(2), dia(3), dia(4), dia(5), dia(6), dia(7)>>]

\* the UPDATE is refused: it sets a text column to a value the column does
\* not take (more characters than its length that are not all blanks, a NUL
\* character), or the interval to a value outside the Integer column
ColunaLonga(lida, nova) ==
    \/ \E c \in {<<"nome_clinica", 200>>, <<"telefone_clinica", 20>>,
                 <<"endereco_clinica", 300>>,
                 <<"hora_inicio_manha", 5>>, <<"hora_fim_manha", 5>>,
                 <<"hora_inicio_tarde", 5>>, <<"hora_fim_tarde", 5>>} :
          nova[c[1]] # lida[c[1]] /\ Recusa(nova[c[1]], c[2])
    \/ ~nova.intervalo_consultas.cabe

\* POST /admin/configuracoes: db.session.commit()
AdminConfiguracoesCommit(w) ==
    /\ pc[w] = "commit"
    /\ req[w].rota = "admin_configuracoes"
    /\ erro' = IF ColunaLonga(req[w].config, req[w].nova_config) THEN "Fault" ELSE "ok"
    /\ config' = IF ColunaLonga(req[w].config, req[w].nova_config) THEN config
                 ELSE ConfigGravada(config, req[w].config, req[w].nova_config)
    /\ Responde(w)
    /\ UNCHANGED <<agendamentos, servicos, dentistas, usuarios, now, horarios>>

\* parse_hora: h, m = map(int, hora_str.split(':')), <<8, 0>> on any
\* exception; a number outside 32 bits, which is no hour and no minute
\* either, is held as -1
ParseHora(hora_str) ==
    LET numero(x) == IF IntCabe(x) THEN IntDe(x) ELSE -1 IN
    IF /\ Cardinality(DoisPontos(hora_str)) = 1
       /\ IntValido(ParteAntes(hora_str))
       /\ IntValido(ParteDepois(hora_str))
    THEN <<numero(ParteAntes(hora_str)), numero(ParteDepois(hora_str))>>
    ELSE <<8, 0>>

\* config.hora_x or 'HH:MM'
OuPadrao(hora_str, padrao) == IF hora_str = <<>> THEN padrao ELSE hora_str

\* datetime.min.time().replace(hour=h, minute=m) raises ValueError outside these
HoraDoDia(hm) == hm[1] \in 0..23 /\ hm[2] \in 0..59

\* datetime.combine(data_selecionada, time(h, m))
Combina(dia, hm) == dia * MinutosPorDia + 60 * hm[1] + hm[2]

\* config.intervalo_consultas or 30
Intervalo(cfg) == IF cfg.intervalo_consultas = 0 THEN 30 ELSE cfg.intervalo_consultas

\* mutant of GeraTurno: the loop runs while hora_atual <= hora_final
RECURSIVE GeraTurnoInclusivo(_, _, _)
GeraTurnoInclusivo(hora_atual, hora_final, intervalo) ==
    IF hora_atual <= hora_final
    THEN <<hora_atual>>
         \o (IF intervalo > hora_final - hora_atual THEN <<>>
             ELSE GeraTurnoInclusivo(hora_atual + intervalo, hora_final, intervalo))
    ELSE <<>>

\* while hora_atual < hora_final: append hora_atual; hora_atual += intervalo.
\* A step that reaches hora_final ends the loop: the sum is not computed, so
\* that a step of up to 2^31 - 1 minutes stays within the integers of the
\* model
RECURSIVE GeraTurno(_, _, _)
GeraTurno(hora_atual, hora_final, intervalo) ==
    IF hora_atual < hora_final
    THEN <<hora_atual>>
         \o (IF intervalo >= hora_final - hora_atual THEN <<>>
             ELSE GeraTurno(hora_atual + intervalo, hora_final, intervalo))
    ELSE <<>>

InicioManha(cfg) == ParseHora(OuPadrao(cfg.hora_inicio_manha, H0800))
FimManha(cfg) == ParseHora(OuPadrao(cfg.hora_fim_manha, H1200))
InicioTarde(cfg) == ParseHora(OuPadrao(cfg.hora_inicio_tarde, H1400))
FimTarde(cfg) == ParseHora(OuPadrao(cfg.hora_fim_tarde, H1800))

\* the four shift bounds are times of day
TurnosValidos(cfg) ==
    HoraDoDia(InicioManha(cfg)) /\ HoraDoDia(FimManha(cfg))
    /\ HoraDoDia(InicioTarde(cfg)) /\ HoraDoDia(FimTarde(cfg))

\* both while loops end by their condition: the step is positive or no shift
\* has a first slot.  Otherwise hora_atual only decreases and the loop is left
\* when hora_atual + timedelta passes datetime.min (year 1): OverflowError,
\* after one list entry for every step from the date asked down to year 1
LacosTerminam(cfg, dia) ==
    \/ Intervalo(cfg) > 0
    \/ /\ Combina(dia, InicioManha(cfg)) >= Combina(dia, FimManha(cfg))
       /\ Combina(dia, InicioTarde(cfg)) >= Combina(dia, FimTarde(cfg))

\* horarios_base: the morning shift, then the afternoon shift
HorariosBase(cfg, dia) ==
    GeraTurno(Combina(dia, InicioManha(cfg)), Combina(dia, FimManha(cfg)), Intervalo(cfg))
    \o GeraTurno(Combina(dia, InicioTarde(cfg)), Combina(dia, FimTarde(cfg)), Intervalo(cfg))

\* mutant of AgendamentosDia: the query forgets the status
AgendamentosDiaQualquerStatus(ags, dentista_id, dia) ==
    {i \in 1..Len(ags) : /\ ags[i].existe
                         /\ ags[i].dentista_id = dentista_id
                         /\ DataDe(ags[i].data_hora_inicio) = dia}

\* agendamentos_dia: the active rows of the dentist that start on the day
AgendamentosDia(ags, dentista_id, dia) ==
    {i \in 1..Len(ags) : /\ ags[i].existe
                         /\ ags[i].dentista_id = dentista_id
                         /\ ags[i].status \in StatusAtivos
                         /\ DataDe(ags[i].data_hora_inicio) = dia}

\* the slots kept, as datetimes: a slot is dropped by the inner loop over
\* agendamentos_dia when horario < ag.data_hora_fim and
\* hora_fim > ag.data_hora_inicio for a row ag
HorariosLivres(ags, cfg, dentista_id, duracao, dia) ==
    SelectSeq(HorariosBase(cfg, dia),
              LAMBDA h : ~\E i \in AgendamentosDia(ags, dentista_id, dia) :
                             /\ h < ags[i].data_hora_fim
                             /\ h + duracao > ags[i].data_hora_inicio)

\* GET /api/horarios-disponiveis: what is answered before the
\* configuration is read ("nenhum": the request goes on to read it)
HorariosErro(dentista_id, servico_id, data) ==
    IF dentista_id = 0 \/ servico_id = 0 \/ data = "" THEN "InvalidParams"
    ELSE IF DiaDe(data) < 0 THEN "InvalidDate"
    ELSE IF ~ServicoExiste(servico_id) THEN "NotFound"
    ELSE "nenhum"

\* GET /api/horarios-disponiveis: the arguments are checked and the service
\* is read
HorariosDisponiveisLeitura(w, dentista_id, servico_id, data) ==
    /\ pc[w] = "idle"
    /\ IF HorariosErro(dentista_id, servico_id, data) = "nenhum"
       THEN /\ Segue(w, "config",
                     [SemReq EXCEPT !.rota = "horarios_disponiveis",
                                    !.dentista_id = dentista_id,
                                    !.servico_id = servico_id,
                                    !.data = data,
                                    !.duracao_minutos = servicos[servico_id].duracao_minutos])
            /\ horarios' = horarios
       ELSE /\ erro' = HorariosErro(dentista_id, servico_id, data)
            /\ horarios' = SemHorarios
            /\ UNCHANGED <<pc, req>>
    /\ UNCHANGED <<agendamentos, servicos, dentistas, usuarios, config, now>>

\* GET /api/horarios-disponiveis: what is answered after the configuration
\* is read and before the appointments of the day are read ("nenhum": the
\* request goes on to read them, "ok": the empty list of a closed day)
HorariosConfigErro(cfg, dia) ==
    \* dias_habilitados.get(dia_semana, False)
    IF ~cfg.dias[DiaSemana(dia) + 1] THEN "ok"
    ELSE IF ~TurnosValidos(cfg) THEN "Fault"
    ELSE IF ~LacosTerminam(cfg, dia) THEN "Fault"
    ELSE "nenhum"

\* GET /api/horarios-disponiveis: the configuration is read, the day of the
\* week is checked, the candidate slots are generated
HorariosDisponiveisConfig(w) ==
    /\ pc[w] = "config"
    /\ req[w].rota = "horarios_disponiveis"
    /\ IF HorariosConfigErro(config, DiaDe(req[w].data)) = "nenhum"
       THEN /\ Segue(w, "agendamentos_dia", [req[w] EXCEPT !.config = config])
            /\ horarios' = horarios
       ELSE /\ erro' = HorariosConfigErro(config, DiaDe(req[w].data))
            /\ horarios' = IF erro' = "ok"
                           THEN [dentista_id |-> req[w].dentista_id,
                                 servico_id |-> req[w].servico_id,
                                 data |-> req[w].data, lista |-> <<>>]
                           ELSE SemHorarios
            /\ Responde(w)
    /\ UNCHANGED <<agendamentos, servicos, dentistas, usuarios, config, now>>

\* GET /api/horarios-disponiveis: the appointments of the day are read and
\* the candidate slots are filtered; the request fails when
\* horario + timedelta(minutes=servico.duracao_minutos) raises OverflowError
\* for a candidate slot; the slots kept are answered, each as
\* strftime('%H:%M')
HorariosDisponiveisConsulta(w) ==
    LET r == req[w]
        base == HorariosBase(r.config, DiaDe(r.data))
        falha == \E k \in 1..Len(base) : AntesDoAnoUm(base[k], r.duracao_minutos)
        livres == HorariosLivres(agendamentos, r.config, r.dentista_id,
                                 r.duracao_minutos, DiaDe(r.data))
    IN
    /\ pc[w] = "agendamentos_dia"
    /\ r.rota = "horarios_disponiveis"
    /\ erro' = IF falha THEN "Fault" ELSE "ok"
    /\ horarios' = IF falha THEN SemHorarios
                   ELSE [dentista_id |-> r.dentista_id, servico_id |-> r.servico_id,
                         data |-> r.data,
                         lista |-> [k \in 1..Len(livres) |-> Strftime(livres[k])]]
    /\ Responde(w)
    /\ UNCHANGED <<agendamentos, servicos, dentistas, usuarios, config, now>>
(***************************************************************************)
(* Specification Spec: the booking routes of two server workers, the       *)
(* cancellation, the status update and the clock.                          *)
(***************************************************************************)
\* the forms the model submits to the booking routes:
\* <<dentista_id, servico_id, data, hora>>; service 1 lasts 30 minutes and
\* service 3 lasts 60; service 9 and dentist 3 are ids of no row, HRuim is
\* no time of day, the last form of Entradas is 08:30 typed with a tab in front
EntradasInvalidas ==
    {<<1, 9, "2026-11-02", H0830>>, <<3, 1, "2026-11-02", H0830>>,
     <<1, 1, "2026-11-02", HRuim>>}

Entradas ==
    {<<1, 1, "2026-11-02", H0800>>, <<1, 3, "2026-11-02", H0800>>,
     <<1, 1, "2026-11-02", <<"\t", "8", ":", "3", "0">>>>}
    \cup EntradasInvalidas

\* the booking routes of the workers W, for the users P, on the forms E
Reservas(W, P, E) ==
    \/ \E w \in W, p \in P, e \in E : AgendarLeitura(w, p, e[1], e[2], e[3], e[4])
    \/ \E w \in W : AgendarServico(w)
    \/ \E w \in W : AgendarConsulta(w)
    \/ \E w \in W : AgendarCommit(w)
    \/ \E w \in W, p \in P, e \in E :
          AdminNovoAgendamentoLeitura(w, p, e[1], e[2], e[3], e[4])
    \/ \E w \in W : AdminNovoAgendamentoServico(w)
    \/ \E w \in W : AdminNovoAgendamentoConsulta(w)
    \/ \E w \in W : AdminNovoAgendamentoCommit(w)

\* the cancellation and the status update of the workers W, for the users P,
\* on the ids of the table and one id beyond them
Estados(W, P, S) ==
    \/ \E w \in W, p \in P, id \in 1..(MaxAgendamentos + 1) :
          CancelarAgendamentoLeitura(w, p, id)
    \/ \E w \in W : CancelarAgendamentoCommit(w)
    \/ \E w \in W, id \in 1..(MaxAgendamentos + 1), st \in S :
          AtualizarStatusAgendamentoLeitura(w, id, st)
    \/ \E w \in W : AtualizarStatusAgendamentoCommit(w)

Next == Reservas(Workers, {1}, Entradas) \/ Estados(Workers, {1}, StatusForm) \/ Tick

Spec == Init /\ [][Next]_vars

(***************************************************************************)
(* Specification SpecBase: the same routes at a fixed time of the clock,   *)
(* for the admin and a patient who registers, on forms that succeed (two   *)
(* services) and forms that fail.                                          *)
(***************************************************************************)
EntradasBase ==
    {<<1, 3, "2026-11-02", H0830>>, <<1, 1, "2026-11-02", H0930>>}
    \cup EntradasInvalidas

NextBase ==
    \/ Reservas(Workers, UsuarioIds, EntradasBase)
    \/ Estados(Workers, UsuarioIds, StatusForm)
    \* the registration page on worker 1, for a patient who gives a CPF
    \/ RegisterLeitura(1,
          [nome |-> <<"A", "n", "a", " ", "S", "o", "u", "z", "a">>,
           email |-> <<" ", "a", "n", "a", "@", "e", "x", "e", "m", "p", "l", "o", ".", "c", "o", "m">>,
           telefone |-> <<>>,
           cpf |-> <<"1", "2", "3", ".", "4", "5", "6", ".", "7", "8", "9", "-", "0", "9">>,
           senha |-> <<"s", "e", "g", "r", "e", "d", "o">>,
           confirmar_senha |-> <<"s", "e", "g", "r", "e", "d", "o">>])
    \/ RegisterCpf(1)
    \/ RegisterCommit(1)

SpecBase == Init /\ [][NextBase]_vars

(***************************************************************************)
(* Specification SpecLeitura: the available-slots API beside the booking   *)
(* routes, the cancellation and the configuration form, one request at a   *)
(* time.                                                                   *)
(***************************************************************************)
\* the form of the configuration page as it is rendered for the default row
FormPadrao ==
    [ConfigPadrao EXCEPT !.telefone_clinica = <<>>, !.endereco_clinica = <<>>,
                         !.intervalo_consultas = <<"3", "0">>]

\* the configuration page and the API of the workers W
Paginas(W, F, Q) ==
    \/ \E w \in W, form \in F : AdminConfiguracoesLeitura(w, form)
    \/ \E w \in W : AdminConfiguracoesCommit(w)
    \/ \E w \in W, q \in Q : HorariosDisponiveisLeitura(w, q[1], q[2], q[3])
    \/ \E w \in W : HorariosDisponiveisConfig(w)
    \/ \E w \in W : HorariosDisponiveisConsulta(w)

\* the cancellation of the workers W for user 1
Cancelamentos(W) ==
    \/ \E w \in W, id \in 1..MaxAgendamentos : CancelarAgendamentoLeitura(w, 1, id)
    \/ \E w \in W : CancelarAgendamentoCommit(w)

NextLeitura ==
    \/ Reservas({1}, {1},
          {<<1, 1, "2026-11-02", H0830>>, <<1, 3, "2026-11-02", H0800>>,
           <<1, 3, "2026-11-02", <<"2", "3", ":", "3", "0">>>>})
    \/ Cancelamentos({1})
    \* the default form and a clinic whose morning shift starts at
    \* midnight; queries <<dentista_id, servico_id, data>>, service 9 is the
    \* id of no row
    \/ Paginas({1},
          {FormPadrao,
           [FormPadrao EXCEPT !.hora_inicio_manha = <<"0", "0", ":", "0", "0">>]},
          {<<1, 1, "2026-11-02">>, <<1, 1, "2026-11-03">>, <<1, 9, "2026-11-02">>})

SpecLeitura == Init /\ [][NextLeitura]_vars

(***************************************************************************)
(* Specification SpecCadastro: the registry of services and dentists, the  *)
(* cancellation and the status update on one server worker, beside the     *)
(* booking routes on the other.                                            *)
(***************************************************************************)
\* the form of the service page as it is rendered for service 1 (Limpeza)
FormLimpeza ==
    [nome |-> <<"L", "i", "m", "p", "e", "z", "a">>,
     descricao |-> <<"L", "i", "m", "p", "e", "z", "a", " ", "d", "e", "n", "t", "a", "l", " ", "c", "o", "m", "p", "l", "e", "t", "a">>,
     duracao_minutos |-> <<"3", "0">>, preco |-> "100.00", ativo |-> TRUE]

\* the form of the dentist page as it is rendered for dentist 1
FormCarlos ==
    [nome |-> <<"D", "r", ".", " ", "C", "a", "r", "l", "o", "s", " ", "S", "i", "l", "v", "a">>,
     cro |-> <<"1", "2", "3", "4", "5", "-", "S", "P">>,
     especialidade |-> <<"C", "l", "U+00ED", "n", "i", "c", "o", " ", "G", "e", "r", "a", "l">>, ativo |-> TRUE]

\* the form of a dentist that is added, with a CRO that is free
FormDentistaNovo ==
    [FormCarlos EXCEPT !.nome = <<"D", "r", "a", ".", " ", "B", "i", "a", " ", "L", "i", "m", "a">>,
                       !.cro = <<"6", "7", "8", "9", "0", "-", "S", "P", " ">>]

NextCadastro ==
    \/ Reservas({1}, {1},
          {<<1, 1, "2026-11-02", H0830>>, <<2, 3, "2026-11-02", H0830>>,
           <<1, 9, "2026-11-02", H0830>>})
    \/ Cancelamentos({2})
    \/ \E id \in 1..MaxAgendamentos : AtualizarStatusAgendamentoLeitura(2, id, "concluido")
    \/ AtualizarStatusAgendamentoCommit(2)
    \* the forms of the service page: <<id, form>>; service 9 is the id of
    \* no row.  Service 1 is given 60 minutes, a new name with blanks around
    \* it and a price of 59.90; is switched off under its first name,
    \* duration and price; is given a duration of eleven digits
    \/ \E f \in {<<1, [FormLimpeza EXCEPT
                          !.duracao_minutos = <<"6", "0">>,
                          !.nome = <<" ", "P", "r", "o", "f", "i", "l", "a", "x", "i", "a", " ">>,
                          !.preco = "59.90"]>>,
                 <<1, [FormLimpeza EXCEPT !.ativo = FALSE]>>,
                 <<1, [FormLimpeza EXCEPT !.duracao_minutos =
                          <<"9", "9", "9", "9", "9", "9", "9", "9", "9", "9", "9">>]>>,
                 <<9, FormLimpeza>>} :
          EditarServicoLeitura(2, f[1], f[2])
    \/ EditarServicoCommit(2)
    \/ \E id \in {1, 3, 9} : ExcluirServicoLeitura(2, id)
    \/ ExcluirServicoCommit(2)
    \* the forms of the dentist page: <<id, form>>; dentist 3 is the id of
    \* no row.  Dentist 1 is switched off and given another speciality
    \/ \E f \in {<<1, [FormCarlos EXCEPT
                          !.ativo = FALSE,
                          !.especialidade = <<"O", "r", "t", "o", "d", "o", "n", "t", "i", "a">>]>>,
                 <<3, FormCarlos>>} :
          EditarDentistaLeitura(2, f[1], f[2])
    \/ EditarDentistaCommit(2)
    \/ \E id \in {1, 2, 3} : ExcluirDentistaLeitura(2, id)
    \/ ExcluirDentistaCommit(2)
    \* a service of 60 minutes is added
    \/ NovoServico([nome |-> <<"C", "a", "n", "a", "l">>, descricao |-> <<>>,
                    duracao_minutos |-> <<"6", "0">>, preco |-> "80,00",
                    ativo |-> TRUE])
    \/ NovoDentistaLeitura(2, FormDentistaNovo)
    \/ NovoDentistaCommit(2)

SpecCadastro == Init /\ [][NextCadastro]_vars

(***************************************************************************)
(* Specification SpecHorarios: the available-slots API under the           *)
(* configurations the configuration form can store, beside the admin       *)
(* booking route, the cancellation and the status update, one request at a *)
(* time.                                                                   *)
(***************************************************************************)
\* slots every 45 minutes; the field is typed with a blank in front and a
\* line feed behind
FormIntervalo45 == [FormPadrao EXCEPT !.intervalo_consultas = <<" ", "4", "5", "\n">>]

\* Monday is unchecked, the afternoon shift ends at hour 25, the interval
\* field holds -30
FormSegundaFechada ==
    [FormPadrao EXCEPT !.hora_fim_tarde = H2500,
                       !.intervalo_consultas = <<"-", "3", "0">>,
                       !.dias = <<FALSE, TRUE, TRUE, TRUE, TRUE, FALSE, FALSE>>]

\* the queries of the API: <<dentista_id, servico_id, data>>; 2026-11-08 is
\* a Sunday
ConsultasValidas ==
    {<<1, 1, "2026-11-02">>, <<1, 3, "2026-11-02">>, <<1, 1, "2026-11-08">>}

\* the admin booking route of the workers W for patient 1
ReservasAdmin(W, E) ==
    \/ \E w \in W, e \in E : AdminNovoAgendamentoLeitura(w, 1, e[1], e[2], e[3], e[4])
    \/ \E w \in W : AdminNovoAgendamentoServico(w)
    \/ \E w \in W : AdminNovoAgendamentoConsulta(w)
    \/ \E w \in W : AdminNovoAgendamentoCommit(w)

NextHorarios ==
    \/ ReservasAdmin({1},
          {<<1, 1, "2026-11-02", H0900>>, <<1, 3, "2026-11-02", H0800>>,
           <<2, 1, "2026-11-02", H0900>>})
    \/ Cancelamentos({1})
    \/ \E id \in 1..MaxAgendamentos : AtualizarStatusAgendamentoLeitura(1, id, "concluido")
    \/ AtualizarStatusAgendamentoCommit(1)
    \/ Paginas({1}, {FormPadrao, FormIntervalo45, FormSegundaFechada}, ConsultasValidas)
    \* a dentist is added; the form of dentist 1 is refused for its CRO
    \/ \E form \in {FormDentistaNovo, FormCarlos} : NovoDentistaLeitura(1, form)
    \/ NovoDentistaCommit(1)

SpecHorarios == Init /\ [][NextHorarios]_vars

(***************************************************************************)
(* Specification SpecToque: both booking routes, the cancellation and the  *)
(* available-slots API on appointments of one dentist that touch           *)
(* (08:30-09:00 and 09:00-09:30) or cross (09:00-10:00).                   *)
(***************************************************************************)
NextToque ==
    \/ Reservas({1}, {1},
          {<<1, 1, "2026-11-02", H0830>>, <<1, 1, "2026-11-02", H0900>>,
           <<1, 3, "2026-11-02", H0900>>})
    \/ Cancelamentos({1})
    \/ \E q \in {<<1, 1, "2026-11-02">>, <<1, 3, "2026-11-02">>} :
          HorariosDisponiveisLeitura(1, q[1], q[2], q[3])
    \/ HorariosDisponiveisConfig(1)
    \/ HorariosDisponiveisConsulta(1)

SpecToque == Init /\ [][NextToque]_vars

(***************************************************************************)
(* Specification SpecConfiguracoes: the available-slots API under every    *)
(* kind of form the configuration page stores, with queries that name no   *)
(* dentist, no service or no date.                                         *)
(***************************************************************************)
\* dentist 3 and service 9 are ids of no row, 2026-13-40 is no date, 0 is
\* an argument left out
ConsultasInvalidas ==
    {<<3, 1, "2026-11-02">>, <<1, 9, "2026-11-02">>, <<1, 1, "2026-13-40">>,
     <<0, 1, "2026-11-02">>}

NextConfiguracoes ==
    \/ ReservasAdmin({1},
          {<<1, 1, "2026-11-02", H0830>>, <<1, 3, "2026-11-02", H0900>>})
    \* the interval field left empty (type=int falls back to 30), holding 0
    \* (stored as 0, read as 30) and holding -30; the morning shift ending
    \* after the afternoon shift starts; the start of the afternoon shift
    \* no time of day (no colon, a letter); the afternoon shift ending at
    \* hour 25; the end of the afternoon shift of six characters
    \/ Paginas({1},
          {FormPadrao, FormIntervalo45, FormSegundaFechada,
           [FormPadrao EXCEPT !.intervalo_consultas = <<>>],
           [FormPadrao EXCEPT !.intervalo_consultas = <<"0">>],
           [FormPadrao EXCEPT !.intervalo_consultas = <<"-", "3", "0">>],
           [FormPadrao EXCEPT !.hora_fim_manha = <<"1", "5", ":", "0", "0">>],
           [FormPadrao EXCEPT !.hora_inicio_tarde = HRuim],
           [FormPadrao EXCEPT !.hora_fim_tarde = H2500],
           [FormPadrao EXCEPT !.hora_fim_tarde = <<"1", "8", ":", "0", "0", "h">>]},
          ConsultasValidas \cup ConsultasInvalidas)

SpecConfiguracoes == Init /\ [][NextConfiguracoes]_vars

(***************************************************************************)
(* Specification SpecSerial: the executions of two server workers in which *)
(* no booking of a dentist runs between the conflict query and the commit  *)
(* of another booking of that dentist, and a status update is requested    *)
(* only for an appointment that is not Cancelled or Completed when the     *)
(* request reads it. The services are those of init_database, whose        *)
(* durations are positive. Every step is a step of the routes as they are: *)
(* the restrictions choose among the executions of the code.  Beside them  *)
(* run the pages that add and edit users, which touch no appointment: a    *)
(* patient registers on one server worker while the admin adds and edits a *)
(* patient on the other.                                                   *)
(***************************************************************************)
\* no other worker holds a booking of the same dentist between its conflict
\* query and its commit
SemReservaIntercalada(w) ==
    \A v \in Workers \ {w} :
        ~(/\ pc[v] = "commit"
          /\ req[v].rota \in RotasReserva
          /\ req[v].dentista_id = req[w].dentista_id)

NextSerial ==
    \/ \E w \in Workers, e \in {<<1, 3, "2026-11-02", H0830>>, <<1, 1, "2026-11-02", H0900>>} :
          AgendarLeitura(w, 1, e[1], e[2], e[3], e[4])
    \/ \E w \in Workers : AgendarServico(w)
    \/ \E w \in Workers : SemReservaIntercalada(w) /\ AgendarConsulta(w)
    \/ \E w \in Workers : AgendarCommit(w)
    \/ \E w \in Workers, e \in {<<1, 3, "2026-11-02", H0830>>, <<1, 1, "2026-11-02", H0900>>} :
          AdminNovoAgendamentoLeitura(w, 1, e[1], e[2], e[3], e[4])
    \/ \E w \in Workers : AdminNovoAgendamentoServico(w)
    \/ \E w \in Workers : SemReservaIntercalada(w) /\ AdminNovoAgendamentoConsulta(w)
    \/ \E w \in Workers : AdminNovoAgendamentoCommit(w)
    \/ Cancelamentos(Workers)
    \* the appointment the status update names is not Cancelled or
    \* Completed when the request reads it
    \/ \E w \in Workers, id \in 1..MaxAgendamentos, st \in StatusForm :
          /\ AgendamentoExiste(id) => agendamentos[id].status \notin StatusFinais
          /\ AtualizarStatusAgendamentoLeitura(w, id, st)
    \/ \E w \in Workers : AtualizarStatusAgendamentoCommit(w)
    \* the registration page on worker 1, for a patient who gives a CPF
    \/ RegisterLeitura(1,
          [nome |-> <<"A", "n", "a", " ", "S", "o", "u", "z", "a">>,
           email |-> <<" ", "a", "n", "a", "@", "e", "x", "e", "m", "p", "l", "o", ".", "c", "o", "m">>,
           telefone |-> <<>>,
           cpf |-> <<"1", "2", "3", ".", "4", "5", "6", ".", "7", "8", "9", "-", "0", "9">>,
           senha |-> <<"s", "e", "g", "r", "e", "d", "o">>,
           confirmar_senha |-> <<"s", "e", "g", "r", "e", "d", "o">>])
    \/ RegisterCpf(1)
    \/ RegisterCommit(1)
    \* the admin adds a patient of the same email and another CPF on worker
    \* 2, and edits the name and the telephone of user 2
    \/ NovoPacienteLeitura(2,
          [nome |-> <<"A", "n", "a", " ", "S", "o", "u", "z", "a">>,
           email |-> <<"a", "n", "a", "@", "e", "x", "e", "m", "p", "l", "o", ".", "c", "o", "m">>,
           telefone |-> <<>>,
           cpf |-> <<"9", "8", "7", ".", "6", "5", "4", ".", "3", "2", "1", "-", "0", "0">>,
           senha |-> <<"s", "e", "g", "r", "e", "d", "o">>])
    \/ NovoPacienteCpf(2)
    \/ NovoPacienteCommit(2)
    \/ EditarPacienteLeitura(2, 2,
          [nome |-> <<"A", "n", "a", " ", "S", ".", " ", "L", "i", "m", "a">>,
           telefone |-> <<"1", "1", " ", "9", "9", "9", "9", "9">>])
    \/ EditarPacienteCommit(2)

SpecSerial == Init /\ [][NextSerial]_vars
(***************************************************************************)
(* Properties.                                                             *)
(***************************************************************************)
\* half-open intervals [s1, e1) and [s2, e2) overlap
Sobrepoe(s1, e1, s2, e2) == s1 < e2 /\ s2 < e1

\* a stored appointment that is Pending or Confirmed
Ativo(ag) == ag.existe /\ ag.status \in {"pendente", "confirmado"}

\* the worker answers a booking request in this step
RespondeReserva(w) == pc[w] # "idle" /\ req[w].rota \in RotasReserva /\ pc'[w] = "idle"

\* C1: in every reachable state the Pending or Confirmed appointments of each
\* dentist are pairwise non-overlapping under half-open semantics.
C1_AtivosNaoSobrepoem ==
    \A i, j \in 1..Len(agendamentos) :
        (i < j /\ agendamentos[i].dentista_id = agendamentos[j].dentista_id
               /\ Ativo(agendamentos[i]) /\ Ativo(agendamentos[j]))
        => ~Sobrepoe(agendamentos[i].data_hora_inicio, agendamentos[i].data_hora_fim,
                     agendamentos[j].data_hora_inicio, agendamentos[j].data_hora_fim)

\* C2: two booking requests for the same dentist with identical or overlapping
\* intervals whose conflict query and commit interleave never both succeed: a
\* commit creates no appointment when an appointment of the same dentist
\* crossing its interval was created after its conflict query.
C2_ConcorrentesNaoCriamAmbos ==
    [][\A w \in Workers :
          (pc[w] = "commit" /\ RespondeReserva(w) /\ erro' = "ok")
          => ~\E i \in (req[w].linhas + 1)..Len(agendamentos) :
                 /\ agendamentos[i].existe
                 /\ agendamentos[i].dentista_id = req[w].dentista_id
                 /\ Sobrepoe(agendamentos[i].data_hora_inicio, agendamentos[i].data_hora_fim,
                             req[w].data_hora_inicio, req[w].data_hora_fim)]_vars

\* C3: Cancelled and Completed are terminal: no step changes the status of an
\* appointment that is Cancelled or Completed, and a status update of such an
\* appointment answers AlreadyTerminal.
C3_FinaisNaoMudam ==
    [][/\ \A i \in 1..Len(agendamentos) :
             agendamentos[i].status \in StatusFinais
             => agendamentos'[i].status = agendamentos[i].status
       /\ \A w \in Workers, id \in 1..Len(agendamentos), st \in StatusAceitos :
             (agendamentos[id].status \in StatusFinais
                /\ AtualizarStatusAgendamentoLeitura(w, id, st))
             => (erro' = "AlreadyTerminal" /\ pc' = pc)]_vars

\* C5: on the patient route and on the admin route alike a booking whose start
\* is the current time or earlier answers InvalidTime and no row is created
\* for it (the request does not go on to its commit).
C5_PassadoRecusado ==
    [][\A w \in Workers, e \in Entradas :
          (Strptime(e[3], e[4]) <= now
             /\ (AgendarLeitura(w, 1, e[1], e[2], e[3], e[4])
                   \/ AdminNovoAgendamentoLeitura(w, 1, e[1], e[2], e[3], e[4])))
          => (erro' = "InvalidTime" /\ pc' = pc /\ agendamentos' = agendamentos)]_vars

\* C7: a successful booking adds exactly one appointment and changes no other:
\* the request keeps the patient, the dentist, the service and the start of
\* the form, and the row its commit adds has them, ends at start + the
\* duration of the service, and is Pending on the patient route, Confirmed on
\* the admin route.
C7_ReservaCriaUm ==
    [][\A w \in Workers :
          /\ (pc[w] = "idle" /\ pc'[w] = "servico")
             => \A p \in UsuarioIds, e \in EntradasBase :
                   (AgendarLeitura(w, p, e[1], e[2], e[3], e[4])
                      \/ AdminNovoAgendamentoLeitura(w, p, e[1], e[2], e[3], e[4]))
                   => /\ req'[w].paciente_id = p
                      /\ req'[w].dentista_id = e[1]
                      /\ req'[w].servico_id = e[2]
                      /\ req'[w].data_hora_inicio = Strptime(e[3], e[4])
          /\ (pc[w] \in {"servico", "consulta"} /\ req[w].rota \in RotasReserva
                /\ pc'[w] # "idle")
             => /\ req'[w].paciente_id = req[w].paciente_id
                /\ req'[w].dentista_id = req[w].dentista_id
                /\ req'[w].servico_id = req[w].servico_id
                /\ req'[w].data_hora_inicio = req[w].data_hora_inicio
          /\ (pc[w] = "commit" /\ RespondeReserva(w) /\ erro' = "ok")
             => agendamentos' =
                   Append(agendamentos,
                          [existe |-> TRUE,
                           paciente_id |-> req[w].paciente_id,
                           dentista_id |-> req[w].dentista_id,
                           servico_id |-> req[w].servico_id,
                           data_hora_inicio |-> req[w].data_hora_inicio,
                           data_hora_fim |-> req[w].data_hora_inicio
                                             + servicos[req[w].servico_id].duracao_minutos,
                           status |-> IF req[w].rota = "agendar"
                                      THEN "pendente" ELSE "confirmado"])]_vars

\* C7 witness: a patient booking (the patient registered, the 60-minute
\* service, 08:30-09:30) and an admin booking (the 30-minute service,
\* 09:30-10:00) have both been committed
C7_Testemunha ==
    /\ erro = "ok"
    /\ Len(agendamentos) = 2
    /\ agendamentos[1].status = "pendente" /\ agendamentos[1].paciente_id = 2
    /\ agendamentos[1].servico_id = 3 /\ agendamentos[1].data_hora_fim = 9 * 60 + 30
    /\ agendamentos[2].status = "confirmado" /\ agendamentos[2].servico_id = 1
    /\ agendamentos[2].data_hora_fim = 10 * 60

\* C9: a cancellation asked by a user who does not own the appointment
\* answers Forbidden, goes on to no commit and leaves every appointment as it
\* was, whatever the status of the appointment.
C9_CancelarDeOutro ==
    [][\A w \in Workers, p \in UsuarioIds, id \in 1..Len(agendamentos) :
          (agendamentos[id].existe /\ agendamentos[id].paciente_id # p
             /\ CancelarAgendamentoLeitura(w, p, id))
          => (erro' = "Forbidden" /\ pc' = pc /\ agendamentos' = agendamentos)]_vars

\* C9 witness: Forbidden was answered while an active and a final appointment
\* of the other user are stored
C9_Testemunha ==
    /\ erro = "Forbidden"
    /\ Len(agendamentos) = 2
    /\ agendamentos[1].paciente_id = 1 /\ agendamentos[2].paciente_id = 1
    /\ agendamentos[1].status = "concluido"
    /\ agendamentos[2].status = "pendente"
    /\ Len(usuarios) = 2

\* C10: a cancellation by the owner of an appointment that is already
\* Cancelled or Completed answers AlreadyTerminal, goes on to no commit and
\* leaves the status as it was; so does a second cancellation of the same
\* appointment.
C10_CancelarFinal ==
    [][\A w \in Workers, p \in UsuarioIds, id \in 1..Len(agendamentos) :
          (agendamentos[id].existe /\ agendamentos[id].paciente_id = p
             /\ agendamentos[id].status \in StatusFinais
             /\ CancelarAgendamentoLeitura(w, p, id))
          => (erro' = "AlreadyTerminal" /\ pc' = pc /\ agendamentos' = agendamentos)]_vars

\* C10 witness: AlreadyTerminal was answered to the patient who registered,
\* whose appointment is Cancelled and no worker is cancelling
C10_Testemunha ==
    /\ erro = "AlreadyTerminal"
    /\ \E i \in 1..Len(agendamentos) :
          agendamentos[i].status = "cancelado" /\ agendamentos[i].paciente_id = 2
    /\ \A w \in Workers : pc[w] = "idle"

\* an active appointment of the dentist crosses [inicio, fim)
AtivoSobreposto(dentista_id, inicio, fim) ==
    \E i \in 1..Len(agendamentos) :
        /\ agendamentos[i].dentista_id = dentista_id
        /\ Ativo(agendamentos[i])
        /\ Sobrepoe(agendamentos[i].data_hora_inicio, agendamentos[i].data_hora_fim,
                    inicio, fim)

\* C4: a booking is checked against the appointments stored when its conflict
\* query runs, not against a slot list obtained before: when a Pending or
\* Confirmed appointment of the dentist crosses [start, start + duration),
\* the booking answers SlotTaken, goes on to no commit and leaves the
\* appointments as they were.
C4_ConflitoNoEstadoAtual ==
    [][\A w \in Workers :
          (/\ pc[w] = "consulta"
           /\ AtivoSobreposto(req[w].dentista_id, req[w].data_hora_inicio,
                              req[w].data_hora_inicio
                                + servicos[req[w].servico_id].duracao_minutos)
           /\ (AgendarConsulta(w) \/ AdminNovoAgendamentoConsulta(w)))
          => (erro' = "SlotTaken" /\ pc'[w] = "idle" /\ agendamentos' = agendamentos)]_vars

\* C4 witness: SlotTaken was answered while the slot list last obtained for
\* dentist 1 on 2026-11-02 still offers 08:30 and an active appointment of
\* dentist 1 starts at 08:30 that day (it was stored after the list was read)
C4_Testemunha ==
    /\ erro = "SlotTaken"
    /\ horarios.dentista_id = 1 /\ horarios.data = "2026-11-02"
    /\ \E k \in 1..Len(horarios.lista) : horarios.lista[k] = H0830
    /\ \E i \in 1..Len(agendamentos) :
          /\ agendamentos[i].dentista_id = 1
          /\ Ativo(agendamentos[i])
          /\ agendamentos[i].data_hora_inicio = 8 * 60 + 30

\* C6: a booking creates an appointment only if the service and the dentist
\* resolve and are active: the commit of a booking succeeds only for a
\* service and a dentist that exist and are active, and a booking that names
\* a missing service or dentist is answered NotFound, one that names a
\* deactivated service or dentist is answered Inactive.
C6_ServicoEDentistaAtivos ==
    [][\A w \in Workers :
          RespondeReserva(w)
          => LET s == req[w].servico_id
                 d == req[w].dentista_id
                 faltam == ~ServicoExiste(s) \/ ~DentistaExiste(d)
                 inativos == ~faltam /\ (~servicos[s].ativo \/ ~dentistas[d].ativo)
             IN /\ faltam => erro' = "NotFound"
                /\ inativos => erro' = "Inactive"
                /\ (faltam \/ inativos)
                      => /\ SubSeq(agendamentos', 1, Len(agendamentos)) = agendamentos
                         /\ \A i \in (Len(agendamentos) + 1)..Len(agendamentos') :
                               ~agendamentos'[i].existe]_vars

\* C8: on a static snapshot the read path and the write path agree: every
\* slot the API returns for a dentist, a service and a date passes the
\* conflict check of a booking made at once for that slot (the booking does
\* not answer SlotTaken), also when an active appointment that starts on
\* another date runs into the date asked.
C8_HorarioOferecidoNaoConflita ==
    [][\A w \in Workers :
          (pc[w] = "agendamentos_dia" /\ HorariosDisponiveisConsulta(w))
          => \A k \in 1..Len(horarios'.lista) :
                LET inicio == Strptime(req[w].data, horarios'.lista[k])
                IN ~Conflito(agendamentos', req[w].dentista_id, inicio,
                             inicio + servicos[req[w].servico_id].duracao_minutos)]_vars

\* C11: a cancellation by the owner of a Pending or Confirmed appointment goes
\* on to its commit, which answers success and sets the status of that
\* appointment, and nothing else, to Cancelled; in the resulting state the
\* appointment is out of the conflict set of its dentist: when no other
\* active appointment of the dentist crosses its interval, the conflict query
\* of a booking of the same interval finds nothing and the slot list of that
\* day offers its start again when the start is a candidate slot.
C11_CancelarLiberaHorario ==
    [][\A w \in Workers :
          /\ \A id \in 1..Len(agendamentos) :
                (Ativo(agendamentos[id])
                   /\ CancelarAgendamentoLeitura(w, agendamentos[id].paciente_id, id))
                => (pc'[w] = "commit" /\ req'[w].id = id)
          /\ (pc[w] = "commit" /\ CancelarAgendamentoCommit(w))
             => LET id == req[w].id
                    ag == agendamentos[id]
                    outro == \E j \in 1..Len(agendamentos) :
                                /\ j # id
                                /\ agendamentos[j].dentista_id = ag.dentista_id
                                /\ Ativo(agendamentos[j])
                                /\ Sobrepoe(agendamentos[j].data_hora_inicio,
                                            agendamentos[j].data_hora_fim,
                                            ag.data_hora_inicio, ag.data_hora_fim)
                    livres == HorariosLivres(agendamentos', config, ag.dentista_id,
                                             ag.data_hora_fim - ag.data_hora_inicio,
                                             DataDe(ag.data_hora_inicio))
                    \* the day of the appointment is open, its slots can be
                    \* generated and its start is one of them
                    candidato ==
                        /\ config.dias[DiaSemana(DataDe(ag.data_hora_inicio)) + 1]
                        /\ TurnosValidos(config)
                        /\ LacosTerminam(config, DataDe(ag.data_hora_inicio))
                        /\ \E k \in 1..Len(HorariosBase(config, DataDe(ag.data_hora_inicio))) :
                              HorariosBase(config, DataDe(ag.data_hora_inicio))[k]
                              = ag.data_hora_inicio
                IN /\ erro' = "ok"
                   /\ agendamentos' = [agendamentos EXCEPT ![id].status = "cancelado"]
                   /\ ~outro =>
                         /\ ~Conflito(agendamentos', ag.dentista_id,
                                      ag.data_hora_inicio, ag.data_hora_fim)
                         /\ candidato
                               => \E k \in 1..Len(livres) :
                                     livres[k] = ag.data_hora_inicio]_vars

\* C11 witness: the interval of a Cancelled appointment of dentist 1 has been
\* booked again and the slot list was read for dentist 1 in between (it
\* offers 08:30, the start of the cancelled appointment)
C11_Testemunha ==
    /\ Len(agendamentos) = 2
    /\ agendamentos[1].status = "cancelado"
    /\ Ativo(agendamentos[2])
    /\ agendamentos[2].dentista_id = agendamentos[1].dentista_id
    /\ agendamentos[2].data_hora_inicio = agendamentos[1].data_hora_inicio
    /\ agendamentos[2].data_hora_fim = agendamentos[1].data_hora_fim
    /\ horarios.dentista_id = agendamentos[1].dentista_id
    /\ \E k \in 1..Len(horarios.lista) :
          horarios.lista[k] = Strftime(agendamentos[1].data_hora_inicio)

\* C12: a status update by the admin whose new status is none of Confirmed,
\* Cancelled, Completed (Pending, or a string that is no status) answers
\* InvalidStatus, goes on to no commit and leaves every appointment as it
\* was.
C12_StatusInvalido ==
    [][\A w \in Workers, id \in 1..Len(agendamentos), st \in StatusForm :
          (/\ agendamentos[id].existe
           /\ st \notin {"confirmado", "cancelado", "concluido"}
           /\ AtualizarStatusAgendamentoLeitura(w, id, st))
          => (erro' = "InvalidStatus" /\ pc' = pc /\ agendamentos' = agendamentos)]_vars

\* C12 witness: InvalidStatus was answered while a Confirmed and a Pending
\* appointment are stored
C12_Testemunha ==
    /\ erro = "InvalidStatus"
    /\ Len(agendamentos) = 2
    /\ agendamentos[1].status = "confirmado"
    /\ agendamentos[2].status = "pendente"

\* C13: the available-slots API answers InvalidDate when the date string is
\* no date, NotFound when the date parses and the service id or the dentist id
\* is the id of no row, and goes on to no slot list for a dentist that does
\* not exist.
C13_HorariosNaoEncontrado ==
    [][\A w \in Workers, q \in ConsultasValidas \cup ConsultasInvalidas :
          (q[1] # 0 /\ HorariosDisponiveisLeitura(w, q[1], q[2], q[3]))
          => /\ DiaDe(q[3]) < 0 => erro' = "InvalidDate"
             /\ (DiaDe(q[3]) >= 0 /\ (~ServicoExiste(q[2]) \/ ~DentistaExiste(q[1])))
                   => erro' = "NotFound"
             /\ ~DentistaExiste(q[1]) => (pc' = pc /\ horarios' = SemHorarios)]_vars

\* the API is asked with a date that parses for a service that exists: the
\* request goes on to read the configuration
LeConfiguracao(w, q) ==
    (pc[w] = "idle" /\ HorariosDisponiveisLeitura(w, q[1], q[2], q[3]))
    => /\ pc'[w] = "config"
       /\ req'[w].dentista_id = q[1] /\ req'[w].servico_id = q[2]
       /\ req'[w].data = q[3]

\* C14: when the configuration marks the weekday of the date asked as closed
\* (2026-11-02 is a Monday, 2026-11-08 a Sunday), the available-slots API
\* answers an empty slot list and no error, whatever the shifts and the
\* interval stored and whatever appointments exist.
C14_DiaFechadoListaVazia ==
    [][\A w \in Workers :
          /\ \A q \in ConsultasValidas : LeConfiguracao(w, q)
          /\ (/\ pc[w] = "config"
              /\ \/ req[w].data = "2026-11-02" /\ ~config.dias[1]
                 \/ req[w].data = "2026-11-08" /\ ~config.dias[7]
              /\ HorariosDisponiveisConfig(w))
             => /\ erro' = "ok"
                /\ pc'[w] = "idle"
                /\ agendamentos' = agendamentos
                /\ horarios' = [dentista_id |-> req[w].dentista_id,
                                servico_id |-> req[w].servico_id,
                                data |-> req[w].data, lista |-> <<>>]]_vars

\* C14 witness: the empty list was answered for Monday 2026-11-02, closed
\* under a configuration whose afternoon ends at hour 25 and whose interval
\* is negative, while dentist 1 has an active appointment that day
C14_Testemunha ==
    /\ erro = "ok"
    /\ horarios = [dentista_id |-> 1, servico_id |-> 1, data |-> "2026-11-02", lista |-> <<>>]
    /\ ~config.dias[1]
    /\ config.intervalo_consultas < 0
    /\ config.hora_fim_tarde = H2500
    /\ \E i \in 1..Len(agendamentos) :
          /\ agendamentos[i].dentista_id = 1
          /\ Ativo(agendamentos[i])
          /\ DataDe(agendamentos[i].data_hora_inicio) = 0

\* the times inicio + k * intervalo (k = 0, 1, 2, ...) strictly before fim, in
\* the order of k, for a positive interval
Bloco(inicio, fim, intervalo) ==
    LET ks == {k \in 0..((fim - inicio) \div intervalo + 1) : inicio + k * intervalo < fim}
    IN [k \in 1..Cardinality(ks) |-> inicio + (k - 1) * intervalo]

\* the candidate slots of Monday 2026-11-02 under the configuration stored
Candidatos ==
    Bloco(Strptime("2026-11-02", config.hora_inicio_manha),
          Strptime("2026-11-02", config.hora_fim_manha), config.intervalo_consultas)
    \o Bloco(Strptime("2026-11-02", config.hora_inicio_tarde),
             Strptime("2026-11-02", config.hora_fim_tarde), config.intervalo_consultas)

\* the API is asked for an open Monday 2026-11-02 under a positive interval:
\* the request goes on to read the configuration and then the appointments
\* of the day
SegundaAberta(w) ==
    /\ \A q \in ConsultasValidas : LeConfiguracao(w, q)
    /\ (/\ pc[w] = "config"
        /\ req[w].data = "2026-11-02" /\ config.dias[1]
        /\ config.intervalo_consultas > 0
        /\ HorariosDisponiveisConfig(w))
       => /\ pc'[w] = "agendamentos_dia"
          /\ req'[w] = [req[w] EXCEPT !.config = config]

\* C15: on an open day (Monday 2026-11-02, shifts that are times of day, a
\* positive interval) for a dentist with no active appointment on that day
\* or running into it, the slot
\* list is, for the morning shift and then for the afternoon shift, exactly
\* the times start + k * interval strictly before the end of the shift,
\* whatever the duration of the service: the end of the shift is no slot and
\* a slot whose end lies after the end of the shift is a slot.  With the
\* default configuration the morning block is 08:00, 08:30, ..., 11:30.
C15_HorariosDoTurno ==
    [][\A w \in Workers :
          /\ SegundaAberta(w)
          /\ (/\ pc[w] = "agendamentos_dia"
              /\ req[w].data = "2026-11-02"
              /\ config.intervalo_consultas > 0
              /\ ~AtivoSobreposto(req[w].dentista_id, 0, MinutosPorDia)
              /\ HorariosDisponiveisConsulta(w))
             => /\ erro' = "ok"
                /\ horarios'.lista = [k \in 1..Len(Candidatos) |-> Strftime(Candidatos[k])]
                /\ config = ConfigPadrao
                      => /\ Len(horarios'.lista) = 16
                         /\ SubSeq(horarios'.lista, 1, 8) =
                               <<H0800, H0830, H0900, H0930,
                                 <<"1", "0", ":", "0", "0">>, <<"1", "0", ":", "3", "0">>,
                                 <<"1", "1", ":", "0", "0">>, <<"1", "1", ":", "3", "0">>>>
                         /\ horarios'.lista[9] = H1400]_vars

\* C15 witness: under the default configuration the list answered for the
\* 60-minute service holds 16 slots, the 8th is 11:30 (it would end at 12:30)
C15_Testemunha ==
    /\ erro = "ok"
    /\ config = ConfigPadrao
    /\ horarios.servico_id = 3 /\ horarios.data = "2026-11-02"
    /\ servicos[3].duracao_minutos = 60
    /\ Len(horarios.lista) = 16
    /\ horarios.lista[8] = <<"1", "1", ":", "3", "0">>

\* the slot list holds the time-of-day string
Oferece(lista, hora) == \E k \in 1..Len(lista) : lista[k] = hora

\* C16: on an open day (Monday 2026-11-02, a positive interval) the slot list
\* is the candidate sequence, in its order, without the candidates s for
\* which a Pending or Confirmed appointment of the dentist asked that starts
\* on that date crosses [s, s + duration of the service); Cancelled and
\* Completed appointments and appointments of other dentists exclude
\* nothing.  With the default configuration, a 30-minute service and a
\* Confirmed appointment 09:00-09:30 as the only active appointment of the
\* dentist, 09:00 is not offered, 08:30 and 09:30 are.
C16_FiltroDeHorarios ==
    [][\A w \in Workers :
          /\ SegundaAberta(w)
          /\ (/\ pc[w] = "agendamentos_dia"
              /\ req[w].data = "2026-11-02"
              /\ config.intervalo_consultas > 0
              /\ HorariosDisponiveisConsulta(w))
             => LET dur == servicos[req[w].servico_id].duracao_minutos
                    doDia == {i \in 1..Len(agendamentos) :
                                /\ agendamentos[i].dentista_id = req[w].dentista_id
                                /\ agendamentos[i].status \in {"pendente", "confirmado"}
                                /\ agendamentos[i].data_hora_inicio \in 0..(MinutosPorDia - 1)}
                    ocupado(s) == \E i \in doDia :
                                     Sobrepoe(s, s + dur, agendamentos[i].data_hora_inicio,
                                              agendamentos[i].data_hora_fim)
                    livres == SelectSeq(Candidatos, LAMBDA s : ~ocupado(s))
                IN /\ erro' = "ok"
                   /\ horarios'.lista = [k \in 1..Len(livres) |-> Strftime(livres[k])]
                   /\ (/\ config = ConfigPadrao /\ dur = 30
                       /\ \E i \in doDia :
                             /\ doDia = {i}
                             /\ agendamentos[i].status = "confirmado"
                             /\ agendamentos[i].data_hora_inicio = 9 * 60
                             /\ agendamentos[i].data_hora_fim = 9 * 60 + 30)
                      => /\ ~Oferece(horarios'.lista, H0900)
                         /\ Oferece(horarios'.lista, H0830)
                         /\ Oferece(horarios'.lista, H0930)]_vars

\* C16 witness: dentist 1 has a Completed appointment 08:00-09:00 and a
\* Confirmed appointment 09:00-09:30; the list answered for dentist 1 and the
\* 30-minute service offers 08:00, 08:30 and 09:30 and does not offer 09:00
C16_Testemunha ==
    /\ erro = "ok"
    /\ config = ConfigPadrao
    /\ horarios.dentista_id = 1 /\ horarios.servico_id = 1 /\ horarios.data = "2026-11-02"
    /\ Len(agendamentos) = 2
    /\ agendamentos[1].dentista_id = 1 /\ agendamentos[1].status = "concluido"
    /\ agendamentos[1].data_hora_inicio = 8 * 60 /\ agendamentos[1].data_hora_fim = 9 * 60
    /\ agendamentos[2].dentista_id = 1 /\ agendamentos[2].status = "confirmado"
    /\ agendamentos[2].data_hora_inicio = 9 * 60 /\ agendamentos[2].data_hora_fim = 9 * 60 + 30
    /\ Oferece(horarios.lista, H0800) /\ Oferece(horarios.lista, H0830)
    /\ ~Oferece(horarios.lista, H0900) /\ Oferece(horarios.lista, H0930)

\* C17: intervals that touch never conflict, on the write path and on the
\* read path alike: a booking is refused with SlotTaken only when an active
\* appointment of the dentist crosses its interval under half-open semantics
\* (one that ends where it starts, or starts where it ends, refuses nothing),
\* and every candidate slot that no active appointment of the dentist crosses
\* is in the slot list.
C17_ToqueNaoConflita ==
    [][\A w \in Workers :
          /\ (/\ pc[w] = "consulta"
              /\ (AgendarConsulta(w) \/ AdminNovoAgendamentoConsulta(w))
              /\ pc'[w] = "idle")
             => AtivoSobreposto(req[w].dentista_id, req[w].data_hora_inicio,
                                req[w].data_hora_inicio
                                  + servicos[req[w].servico_id].duracao_minutos)
          /\ (pc[w] = "agendamentos_dia" /\ HorariosDisponiveisConsulta(w))
             => \A k \in 1..Len(Candidatos) :
                   ~AtivoSobreposto(req[w].dentista_id, Candidatos[k],
                                    Candidatos[k]
                                      + servicos[req[w].servico_id].duracao_minutos)
                   => Oferece(horarios'.lista, Strftime(Candidatos[k]))]_vars

\* C17 witness: dentist 1 has the active appointments 08:30-09:00 and
\* 09:00-09:30 (the second was accepted though it starts where the first
\* ends) and the list answered for the 30-minute service offers 08:00, which
\* ends where the first starts, and 09:30, which starts where the second ends
C17_Testemunha ==
    /\ erro = "ok"
    /\ Len(agendamentos) = 2
    /\ agendamentos[1].dentista_id = 1 /\ Ativo(agendamentos[1])
    /\ agendamentos[1].data_hora_inicio = 8 * 60 + 30 /\ agendamentos[1].data_hora_fim = 9 * 60
    /\ agendamentos[2].dentista_id = 1 /\ Ativo(agendamentos[2])
    /\ agendamentos[2].data_hora_inicio = 9 * 60 /\ agendamentos[2].data_hora_fim = 9 * 60 + 30
    /\ horarios.dentista_id = 1 /\ horarios.servico_id = 1
    /\ Oferece(horarios.lista, H0800)
    /\ ~Oferece(horarios.lista, H0830) /\ ~Oferece(horarios.lista, H0900)
    /\ Oferece(horarios.lista, H0930)

\* the four shift bounds stored are times of day
TurnosNoFormato ==
    /\ HoraFormValida(config.hora_inicio_manha)
    /\ HoraFormValida(config.hora_fim_manha)
    /\ HoraFormValida(config.hora_inicio_tarde)
    /\ HoraFormValida(config.hora_fim_tarde)

\* C18: for every configuration the configuration form can store (any
\* integer interval, any shift bounds that are times of day) the slot
\* generation of the available-slots API terminates: both loops end by their
\* condition and the request goes on to its slot list or is answered with one
\* of the errors of the API, never with the fault of a loop that ran away.
C18_LacosTerminamSempre ==
    [][\A w \in Workers :
          /\ \A q \in ConsultasValidas \cup ConsultasInvalidas :
                (pc[w] = "idle" /\ HorariosDisponiveisLeitura(w, q[1], q[2], q[3]))
                => \/ pc'[w] = "config"
                   \/ erro' \in {"InvalidParams", "InvalidDate", "NotFound"}
          /\ (pc[w] = "config" /\ TurnosNoFormato /\ HorariosDisponiveisConfig(w))
             => (pc'[w] = "agendamentos_dia" \/ erro' = "ok")]_vars

\* C19: a service or a dentist is deleted only when no appointment references
\* it: the deletion of one that an appointment of any status references is
\* rejected (by the view, or by the database when the appointment was stored
\* after the view looked) and leaves it in place; no step removes an
\* appointment or changes what it references; so every stored appointment
\* references an existing service and an existing dentist.
C19_ExclusaoSoSemAgendamentos ==
    [][/\ \A w \in Workers, id \in 1..Len(servicos) :
             /\ (servicos[id].existe /\ AgendamentosDoServico(id) # {}
                   /\ ExcluirServicoLeitura(w, id))
                   => (erro' = "InUse" /\ pc' = pc /\ servicos' = servicos)
             /\ (servicos[id].existe /\ ~servicos'[id].existe)
                   => \A i \in 1..Len(agendamentos) : agendamentos[i].servico_id # id
       /\ \A w \in Workers, id \in 1..Len(dentistas) :
             /\ (dentistas[id].existe /\ AgendamentosDoDentista(id) # {}
                   /\ ExcluirDentistaLeitura(w, id))
                   => (erro' = "InUse" /\ pc' = pc /\ dentistas' = dentistas)
             /\ (dentistas[id].existe /\ ~dentistas'[id].existe)
                   => \A i \in 1..Len(agendamentos) : agendamentos[i].dentista_id # id
       /\ Len(agendamentos') >= Len(agendamentos)
       /\ \A i \in 1..Len(agendamentos) :
             /\ agendamentos'[i].existe = agendamentos[i].existe
             /\ agendamentos'[i].servico_id = agendamentos[i].servico_id
             /\ agendamentos'[i].dentista_id = agendamentos[i].dentista_id
       /\ \A i \in 1..Len(agendamentos') :
             agendamentos'[i].existe
             => /\ agendamentos'[i].servico_id \in 1..Len(servicos')
                /\ servicos'[agendamentos'[i].servico_id].existe
                /\ agendamentos'[i].dentista_id \in 1..Len(dentistas')
                /\ dentistas'[agendamentos'[i].dentista_id].existe]_vars

\* C19 witness: the deletion of a service that only a Cancelled appointment
\* references was rejected, after the service no appointment references was
\* deleted
C19_Testemunha ==
    /\ erro = "InUse"
    /\ Len(agendamentos) = 1
    /\ agendamentos[1].status = "cancelado"
    /\ agendamentos[1].servico_id = 1 /\ servicos[1].existe
    /\ dentistas[agendamentos[1].dentista_id].existe
    /\ ~servicos[3].existe

\* C20: for every configuration stored, a morning shift that ends after the
\* start of the afternoon shift included, the slot list of an open day is
\* strictly ascending in time of day: every morning slot lies before every
\* afternoon slot and no time is listed twice.
C20_HorariosCrescentes ==
    [][\A w \in Workers :
          (pc[w] = "agendamentos_dia" /\ HorariosDisponiveisConsulta(w))
          => \A j, k \in 1..Len(horarios'.lista) :
                j < k => Strptime(req[w].data, horarios'.lista[j])
                           < Strptime(req[w].data, horarios'.lista[k])]_vars

\* C21: after its creation the start, the end, the dentist, the service and
\* the patient of an appointment never change: a cancellation and a status
\* update change at most the status of the appointment they name, and the
\* edition of a service, its duration included, leaves every appointment as
\* it was (the end stays start + the duration at creation).
C21_CamposFixos ==
    [][/\ \A i \in 1..Len(agendamentos) :
             /\ i <= Len(agendamentos')
             /\ agendamentos'[i].existe = agendamentos[i].existe
             /\ agendamentos'[i].paciente_id = agendamentos[i].paciente_id
             /\ agendamentos'[i].dentista_id = agendamentos[i].dentista_id
             /\ agendamentos'[i].servico_id = agendamentos[i].servico_id
             /\ agendamentos'[i].data_hora_inicio = agendamentos[i].data_hora_inicio
             /\ agendamentos'[i].data_hora_fim = agendamentos[i].data_hora_fim
       /\ \A w \in Workers :
             (pc[w] = "commit"
                /\ (CancelarAgendamentoCommit(w) \/ AtualizarStatusAgendamentoCommit(w)))
             => \A i \in 1..Len(agendamentos) :
                   i # req[w].id => agendamentos'[i] = agendamentos[i]
       /\ \A w \in Workers :
             (pc[w] = "commit" /\ EditarServicoCommit(w)) => agendamentos' = agendamentos]_vars

\* C21 witness: the duration of service 1 was edited to 60 minutes after an
\* appointment of service 1 was created with 30, the appointment was then
\* completed and still ends 30 minutes after its start
C21_Testemunha ==
    /\ servicos[1].existe /\ servicos[1].duracao_minutos = 60
    /\ \E i \in 1..Len(agendamentos) :
          /\ agendamentos[i].servico_id = 1
          /\ agendamentos[i].status = "concluido"
          /\ agendamentos[i].data_hora_fim = agendamentos[i].data_hora_inicio + 30

\* C22: a configured shift bound that is no time of day (not numeric, no
\* colon, or out of range such as hour 25) never makes the available-slots
\* API fail: for a query whose date parses and whose service exists, under a
\* configuration with such a field (and an interval that is not negative),
\* the request goes on to its slot list or is answered with a slot list.
C22_HoraMalformadaNaoFalha ==
    [][\A w \in Workers :
          (/\ pc[w] = "config"
           /\ ~TurnosNoFormato
           /\ config.intervalo_consultas >= 0
           /\ HorariosDisponiveisConfig(w))
          => (pc'[w] = "agendamentos_dia" \/ erro' = "ok")]_vars

\* C23: in the executions in which no booking of a dentist runs between the
\* conflict query and the commit of another booking of that dentist, every
\* service lasts a positive time and every status update is requested for an
\* appointment that is not Cancelled or Completed, no active (Pending or
\* Confirmed) appointment is crossed by another active appointment of the
\* same dentist.
C23_SerialAtivosNaoSobrepoem ==
    \A i \in 1..Len(agendamentos) :
        Ativo(agendamentos[i])
        => ~\E j \in (1..Len(agendamentos)) \ {i} :
               /\ agendamentos[j].dentista_id = agendamentos[i].dentista_id
               /\ Ativo(agendamentos[j])
               /\ Sobrepoe(agendamentos[j].data_hora_inicio, agendamentos[j].data_hora_fim,
                           agendamentos[i].data_hora_inicio, agendamentos[i].data_hora_fim)

\* C24: Pending is an initial status only: the status of every appointment
\* is one of Pending, Confirmed, Cancelled, Completed, and no step makes an
\* appointment Pending whose status is not Pending.
C24_PendenteSoInicial ==
    [][/\ \A i \in 1..Len(agendamentos') :
             agendamentos'[i].existe
             => agendamentos'[i].status \in {"pendente", "confirmado", "cancelado", "concluido"}
       /\ \A i \in 1..Len(agendamentos) :
             agendamentos[i].status # "pendente" => agendamentos'[i].status # "pendente"]_vars

\* C24 witness: a status update was refused as invalid (Pending, or a string
\* that is no status) while a Completed and a Cancelled appointment are
\* stored and stay as they are
C24_Testemunha ==
    /\ erro = "InvalidStatus"
    /\ Len(agendamentos) = 2
    /\ agendamentos[1].status = "concluido" /\ agendamentos[1].data_hora_inicio = 8 * 60 + 30
    /\ agendamentos[2].status = "cancelado" /\ agendamentos[2].data_hora_inicio = 9 * 60 + 30

=============================================================================
